---- MODULE Spec2Model ----
(***************************************************************************)
(* Streaming decode pipeline of alphastream-rs: the ring-buffer frame      *)
(* cache (cache.rs), the prefetch scheduler (scheduler.rs) and the worker  *)
(* loop / get_frame glue (api.rs).                                         *)
(*                                                                         *)
(* The cache and the scheduler are values (records); every method is an    *)
(* operator from the old value to the new one, and the actions apply them. *)
(*   Spec       the cache's public methods, called one at a time           *)
(*   SpecSched  the scheduler's methods on an attached or absent cache     *)
(*   SpecSys    get_frame callers, the worker loop and its decode jobs     *)
(*   SpecSeq    SpecSys with a forward-only caller, decodes that succeed,  *)
(*              and weak fairness of every thread                          *)
(***************************************************************************)
EXTENDS Integers, Sequences, FiniteSets, Bags, TLC

\* ------------------------------------------------------------------ bounds
\* RingBufferCache::new(capacity); 4 is the least capacity with capacity/4 > 0
Capacity == 4
\* frame indices the callers use: 0 .. MaxFrame
MaxFrame == 9
\* generation is a u64 that never wraps in practice; invalidations are counted up to here
MaxGen == 1
\* Scheduler::set_max_concurrent
MaxConcurrent == 2
\* Scheduler::set_prefetch_count
PrefetchCount == 2
\* longest task queue the scheduler's callers build
MaxQueue == 2
\* frame indices the scheduler's callers use: 0 .. SchedMaxFrame
SchedMaxFrame == 4
\* frame indices the get_frame caller asks for: 0 .. SysMaxFrame
SysMaxFrame == 2
\* the forward-only caller plays frames 0 .. SeqMaxFrame
SeqMaxFrame == 6

Frames == 0 .. MaxFrame
Slots == 0 .. (Capacity - 1)
SchedFrames == 0 .. SchedMaxFrame
\* Task::priority is a u8; 0 is Task::new, 10 a user request, 5 the tests' value
Priorities == {0, 5, 10}
\* Option::None of a frame index or a slot index
None == -1
\* FrameData: the polystream stands for the whole value; dequeued_at is history, the
\* cache generation at which the task that produced the value left the queue
FrameData(polystream, dequeued_at) == [polystream |-> polystream, dequeued_at |-> dequeued_at]
\* Option::None of a FrameData
NoData == FrameData(None, None)
\* FrameData values handed to insert by the callers of the cache, as test_frame_data(id)
Data == {FrameData(1, None)}
KeyData == {FrameData(1, None), FrameData(2, None)}

Min(a, b) == IF a < b THEN a ELSE b

\* ------------------------------------------------------------------ FrameSlot
Empty == [st |-> "Empty", data |-> NoData]
InProgress == [st |-> "InProgress", data |-> NoData]
\* Option::None of a FrameSlot
NoSlot == [st |-> "None", data |-> NoData]
Ready(d) == [st |-> "Ready", data |-> d]

is_ready(slot) == slot.st = "Ready"
is_empty(slot) == slot.st = "Empty"
is_in_progress(slot) == slot.st = "InProgress"

\* ------------------------------------------------------------------ RingBufferCache
new_cache == [buffer |-> [s \in Slots |-> Empty],
              play_head |-> 0,
              start_index |-> 0,
              generation |-> 0,
              ready_count |-> 0,
              in_progress_count |-> 0]

\* frame_to_slot without the range test
frame_to_slot_wrap(frame_index, start) == (frame_index - start) % Capacity

frame_to_slot(frame_index, start) ==
    IF frame_index < start \/ frame_index >= start + Capacity
    THEN None
    ELSE (frame_index - start) % Capacity

get(c, frame_index) ==
    LET slot_index == frame_to_slot(frame_index, c.start_index)
    IN  IF slot_index = None THEN NoData
        ELSE IF is_ready(c.buffer[slot_index]) THEN c.buffer[slot_index].data
        ELSE NoData

is_in_range(c, frame_index) ==
    frame_index >= c.start_index /\ frame_index < c.start_index + Capacity

contains(c, frame_index) ==
    LET slot_index == frame_to_slot(frame_index, c.start_index)
    IN  slot_index # None /\ is_ready(c.buffer[slot_index])

\* Some(slot) or None
get_slot_state(c, frame_index) ==
    LET slot_index == frame_to_slot(frame_index, c.start_index)
    IN  IF slot_index = None THEN NoSlot ELSE c.buffer[slot_index]

len(c) == c.ready_count
occupied_count(c) == c.ready_count + c.in_progress_count
cache_is_empty(c) == len(c) = 0

insert_ok(c, frame_index) == frame_to_slot(frame_index, c.start_index) # None

insert(c, frame_index, d) ==
    LET slot_index == frame_to_slot(frame_index, c.start_index)
    IN  IF slot_index = None THEN c
        ELSE LET old_state == c.buffer[slot_index]
                 was_in_progress == is_in_progress(old_state)
                 was_ready == is_ready(old_state)
             IN  [c EXCEPT !.buffer[slot_index] = Ready(d),
                           !.in_progress_count = IF was_in_progress THEN @ - 1 ELSE @,
                           !.ready_count = IF ~was_ready THEN @ + 1 ELSE @]

\* mark_in_progress without the is_empty test: the slot is overwritten whatever it held
mark_in_progress_overwrites(c, frame_index) ==
    LET slot_index == frame_to_slot(frame_index, c.start_index)
    IN  IF slot_index = None THEN c
        ELSE [c EXCEPT !.buffer[slot_index] = InProgress,
                       !.in_progress_count = @ + 1]

mark_in_progress_ok(c, frame_index) == frame_to_slot(frame_index, c.start_index) # None

mark_in_progress(c, frame_index) ==
    LET slot_index == frame_to_slot(frame_index, c.start_index)
    IN  IF slot_index = None THEN c
        ELSE IF is_empty(c.buffer[slot_index])
             THEN [c EXCEPT !.buffer[slot_index] = InProgress,
                            !.in_progress_count = @ + 1]
             ELSE c

\* invalidate_internal without generation.fetch_add(1)
invalidate_internal_no_bump(c) ==
    [c EXCEPT !.buffer = [s \in Slots |-> Empty],
              !.ready_count = 0,
              !.in_progress_count = 0]

invalidate_internal(c) ==
    [c EXCEPT !.buffer = [s \in Slots |-> Empty],
              !.ready_count = 0,
              !.in_progress_count = 0,
              !.generation = @ + 1]

clear(c) == invalidate_internal(c)

\* advance_start without the `match old_state` that decrements the counters
advance_start_keep_counts(c, new_start) ==
    LET current == c.start_index
        advance == new_start - current
        vacated == {i % Capacity : i \in 0 .. (Min(advance, Capacity) - 1)}
    IN  IF new_start > current
        THEN [c EXCEPT !.buffer = [s \in Slots |-> IF s \in vacated THEN Empty ELSE @[s]],
                       !.start_index = new_start]
        ELSE c

\* the loop `for i in 0..advance.min(capacity)` empties slot i % capacity
advance_start(c, new_start) ==
    LET current == c.start_index
        advance == new_start - current
        vacated == {i % Capacity : i \in 0 .. (Min(advance, Capacity) - 1)}
    IN  IF new_start > current
        THEN [c EXCEPT !.buffer = [s \in Slots |-> IF s \in vacated THEN Empty ELSE @[s]],
                       !.ready_count =
                           @ - Cardinality({s \in vacated : is_ready(c.buffer[s])}),
                       !.in_progress_count =
                           @ - Cardinality({s \in vacated : is_in_progress(c.buffer[s])}),
                       !.start_index = new_start]
        ELSE c

\* which of the four branches update_play_head(frame_index) takes
seek_branch(c, frame_index) ==
    IF frame_index < c.play_head THEN "backward"
    ELSE IF frame_index >= c.start_index + 2 * Capacity THEN "large_forward"
    ELSE IF frame_index >= c.start_index + Capacity THEN "slide"
    ELSE "forward"

\* the value update_play_head returns: true iff a seek was detected
update_play_head_ret(c, frame_index) ==
    seek_branch(c, frame_index) \in {"backward", "large_forward"}

\* update_play_head whose backward seek moves the play head but not the window
update_play_head_keep_start(c, frame_index) ==
    LET current_play_head == c.play_head
        start == c.start_index
    IN  IF frame_index < current_play_head
        THEN [invalidate_internal(c) EXCEPT !.play_head = frame_index]
        ELSE IF frame_index >= start + 2 * Capacity
        THEN [invalidate_internal(c) EXCEPT !.start_index = frame_index,
                                            !.play_head = frame_index]
        ELSE IF frame_index >= start + Capacity
        THEN LET buffer_behind == Capacity \div 4
                 new_start == IF frame_index >= buffer_behind
                              THEN frame_index - buffer_behind
                              ELSE 0
             IN  [advance_start(c, new_start) EXCEPT !.play_head = frame_index]
        ELSE [c EXCEPT !.play_head = frame_index]

\* update_play_head whose large-seek test is `>` where the code has `>=`
update_play_head_strict(c, frame_index) ==
    LET current_play_head == c.play_head
        start == c.start_index
    IN  IF frame_index < current_play_head
        THEN [invalidate_internal(c) EXCEPT !.start_index = frame_index,
                                            !.play_head = frame_index]
        ELSE IF frame_index > start + 2 * Capacity
        THEN [invalidate_internal(c) EXCEPT !.start_index = frame_index,
                                            !.play_head = frame_index]
        ELSE IF frame_index >= start + Capacity
        THEN LET buffer_behind == Capacity \div 4
                 new_start == IF frame_index >= buffer_behind
                              THEN frame_index - buffer_behind
                              ELSE 0
             IN  [advance_start(c, new_start) EXCEPT !.play_head = frame_index]
        ELSE [c EXCEPT !.play_head = frame_index]

\* update_play_head whose slide keeps half of the capacity behind the play head
update_play_head_half_behind(c, frame_index) ==
    LET current_play_head == c.play_head
        start == c.start_index
    IN  IF frame_index < current_play_head
        THEN [invalidate_internal(c) EXCEPT !.start_index = frame_index,
                                            !.play_head = frame_index]
        ELSE IF frame_index >= start + 2 * Capacity
        THEN [invalidate_internal(c) EXCEPT !.start_index = frame_index,
                                            !.play_head = frame_index]
        ELSE IF frame_index >= start + Capacity
        THEN LET buffer_behind == Capacity \div 2
                 new_start == IF frame_index >= buffer_behind
                              THEN frame_index - buffer_behind
                              ELSE 0
             IN  [advance_start(c, new_start) EXCEPT !.play_head = frame_index]
        ELSE [c EXCEPT !.play_head = frame_index]

\* update_play_head that seeks backward only when the frame is before the window
update_play_head_rewinds(c, frame_index) ==
    LET current_play_head == c.play_head
        start == c.start_index
    IN  IF frame_index < current_play_head /\ frame_index < start
        THEN [invalidate_internal(c) EXCEPT !.start_index = frame_index,
                                            !.play_head = frame_index]
        ELSE IF frame_index >= start + 2 * Capacity
        THEN [invalidate_internal(c) EXCEPT !.start_index = frame_index,
                                            !.play_head = frame_index]
        ELSE IF frame_index >= start + Capacity
        THEN LET buffer_behind == Capacity \div 4
                 new_start == IF frame_index >= buffer_behind
                              THEN frame_index - buffer_behind
                              ELSE 0
             IN  [advance_start(c, new_start) EXCEPT !.play_head = frame_index]
        ELSE [c EXCEPT !.play_head = frame_index]

\* update_play_head whose slide keeps the whole capacity behind the play head
update_play_head_all_behind(c, frame_index) ==
    LET current_play_head == c.play_head
        start == c.start_index
    IN  IF frame_index < current_play_head
        THEN [invalidate_internal(c) EXCEPT !.start_index = frame_index,
                                            !.play_head = frame_index]
        ELSE IF frame_index >= start + 2 * Capacity
        THEN [invalidate_internal(c) EXCEPT !.start_index = frame_index,
                                            !.play_head = frame_index]
        ELSE IF frame_index >= start + Capacity
        THEN LET buffer_behind == Capacity
                 new_start == IF frame_index >= buffer_behind
                              THEN frame_index - buffer_behind
                              ELSE 0
             IN  [advance_start(c, new_start) EXCEPT !.play_head = frame_index]
        ELSE [c EXCEPT !.play_head = frame_index]

\* update_play_head whose window follows every forward move of the play head
update_play_head_follows(c, frame_index) ==
    LET current_play_head == c.play_head
        start == c.start_index
    IN  IF frame_index < current_play_head
        THEN [invalidate_internal(c) EXCEPT !.start_index = frame_index,
                                            !.play_head = frame_index]
        ELSE IF frame_index >= start + 2 * Capacity
        THEN [invalidate_internal(c) EXCEPT !.start_index = frame_index,
                                            !.play_head = frame_index]
        ELSE LET buffer_behind == Capacity \div 4
                 new_start == IF frame_index >= buffer_behind
                              THEN frame_index - buffer_behind
                              ELSE 0
             IN  [advance_start(c, new_start) EXCEPT !.play_head = frame_index]

update_play_head(c, frame_index) ==
    LET current_play_head == c.play_head
        start == c.start_index
    IN  IF frame_index < current_play_head
        THEN [invalidate_internal(c) EXCEPT !.start_index = frame_index,
                                            !.play_head = frame_index]
        ELSE IF frame_index >= start + 2 * Capacity
        THEN [invalidate_internal(c) EXCEPT !.start_index = frame_index,
                                            !.play_head = frame_index]
        ELSE IF frame_index >= start + Capacity
        THEN LET buffer_behind == Capacity \div 4
                 new_start == IF frame_index >= buffer_behind
                              THEN frame_index - buffer_behind
                              ELSE 0
             IN  [advance_start(c, new_start) EXCEPT !.play_head = frame_index]
        ELSE [c EXCEPT !.play_head = frame_index]

\* ------------------------------------------------------------------ Scheduler
Task(frame_index, priority) == [frame_index |-> frame_index, priority |-> priority]
task_new(frame_index) == Task(frame_index, 0)
\* Option::None of a Task
NoTask == Task(None, None)

\* Scheduler::new(), then set_cache when has_cache
new_scheduler(has_cache) ==
    [task_queue |-> <<>>,
     queued_frames |-> {},
     active_tasks |-> 0,
     has_cache |-> has_cache]

\* VecDeque::retain(|t| t.frame_index != frame_index)
RECURSIVE retain_other(_, _)
retain_other(q, frame_index) ==
    IF q = <<>> THEN <<>>
    ELSE IF Head(q).frame_index = frame_index
         THEN retain_other(Tail(q), frame_index)
         ELSE <<Head(q)>> \o retain_other(Tail(q), frame_index)

\* iter().position(..).unwrap_or(len), 1-based: where a new task is inserted
RECURSIVE insert_pos(_, _, _)
insert_pos(q, task, k) ==
    IF k > Len(q) THEN Len(q) + 1
    ELSE IF q[k].priority < task.priority
            \/ (q[k].priority = task.priority /\ q[k].frame_index > task.frame_index)
         THEN k
         ELSE insert_pos(q, task, k + 1)

insert_at(q, pos, task) == SubSeq(q, 1, pos - 1) \o <<task>> \o SubSeq(q, pos, Len(q))

\* iter_mut().find(|t| t.frame_index == frame_index): its position, or 0
find_task(q, frame_index) ==
    IF \E k \in 1 .. Len(q) : q[k].frame_index = frame_index
    THEN CHOOSE k \in 1 .. Len(q) :
            /\ q[k].frame_index = frame_index
            /\ \A j \in 1 .. (k - 1) : q[j].frame_index # frame_index
    ELSE 0

\* which path schedule_task(task) takes: a new frame, a priority upgrade, or a duplicate
schedule_branch(s, task) ==
    IF task.frame_index \notin s.queued_frames THEN "new"
    ELSE LET k == find_task(s.task_queue, task.frame_index)
         IN  IF k # 0 /\ task.priority > s.task_queue[k].priority
             THEN "upgrade"
             ELSE "duplicate"

\* schedule_task whose upgrade test is `>=` where the code has `>`
schedule_task_ge(s, task) ==
    LET frame_index == task.frame_index
    IN  IF frame_index \in s.queued_frames
        THEN LET k == find_task(s.task_queue, frame_index)
             IN  IF k # 0 /\ task.priority >= s.task_queue[k].priority
                 THEN [s EXCEPT !.task_queue = <<task>> \o retain_other(@, frame_index),
                                !.queued_frames = (@ \ {frame_index}) \cup {frame_index}]
                 ELSE s
        ELSE [s EXCEPT !.task_queue = insert_at(@, insert_pos(@, task, 1), task),
                       !.queued_frames = @ \cup {frame_index}]

\* schedule_task whose upgrade stops after `existing.priority = task.priority`
schedule_task_in_place(s, task) ==
    LET frame_index == task.frame_index
    IN  IF frame_index \in s.queued_frames
        THEN LET k == find_task(s.task_queue, frame_index)
             IN  IF k # 0 /\ task.priority > s.task_queue[k].priority
                 THEN [s EXCEPT !.task_queue[k].priority = task.priority]
                 ELSE s
        ELSE [s EXCEPT !.task_queue = insert_at(@, insert_pos(@, task, 1), task),
                       !.queued_frames = @ \cup {frame_index}]

\* schedule_task that queues a new task without recording its frame in queued_frames
schedule_task_unrecorded(s, task) ==
    LET frame_index == task.frame_index
    IN  IF frame_index \in s.queued_frames
        THEN LET k == find_task(s.task_queue, frame_index)
             IN  IF k # 0 /\ task.priority > s.task_queue[k].priority
                 THEN [s EXCEPT !.task_queue = <<task>> \o retain_other(@, frame_index),
                                !.queued_frames = (@ \ {frame_index}) \cup {frame_index}]
                 ELSE s
        ELSE [s EXCEPT !.task_queue = insert_at(@, insert_pos(@, task, 1), task)]

schedule_task(s, task) ==
    LET frame_index == task.frame_index
    IN  IF frame_index \in s.queued_frames
        THEN LET k == find_task(s.task_queue, frame_index)
             IN  IF k # 0 /\ task.priority > s.task_queue[k].priority
                 THEN [s EXCEPT !.task_queue = <<task>> \o retain_other(@, frame_index),
                                !.queued_frames = (@ \ {frame_index}) \cup {frame_index}]
                 ELSE s
        ELSE [s EXCEPT !.task_queue = insert_at(@, insert_pos(@, task, 1), task),
                       !.queued_frames = @ \cup {frame_index}]

\* the pop_front loop without the is_in_range test: the first task is returned
pop_loop_no_range(s, c) ==
    IF s.task_queue = <<>> THEN [sched |-> s, cache |-> c, ret |-> NoTask]
    ELSE LET task == Head(s.task_queue)
             popped == [s EXCEPT !.task_queue = Tail(@),
                                 !.queued_frames = @ \ {task.frame_index}]
         IN  [sched |-> [popped EXCEPT !.active_tasks = @ + 1],
              cache |-> IF s.has_cache THEN mark_in_progress(c, task.frame_index) ELSE c,
              ret |-> task]

\* the `while let Some(task) = pop_front()` loop of next_task
RECURSIVE pop_loop(_, _)
pop_loop(s, c) ==
    IF s.task_queue = <<>> THEN [sched |-> s, cache |-> c, ret |-> NoTask]
    ELSE LET task == Head(s.task_queue)
             popped == [s EXCEPT !.task_queue = Tail(@),
                                 !.queued_frames = @ \ {task.frame_index}]
         IN  IF s.has_cache
             THEN IF is_in_range(c, task.frame_index)
                  THEN [sched |-> [popped EXCEPT !.active_tasks = @ + 1],
                        cache |-> mark_in_progress(c, task.frame_index),
                        ret |-> task]
                  ELSE pop_loop(popped, c)
             ELSE [sched |-> [popped EXCEPT !.active_tasks = @ + 1],
                   cache |-> c,
                   ret |-> task]

\* next_task without the `occupied >= capacity` test
next_task_ignores_cache(s, c) ==
    IF s.active_tasks >= MaxConcurrent
    THEN [sched |-> s, cache |-> c, ret |-> NoTask]
    ELSE pop_loop(s, c)

\* the new scheduler, the new cache and the Option<Task> returned
next_task(s, c) ==
    IF s.active_tasks >= MaxConcurrent
    THEN [sched |-> s, cache |-> c, ret |-> NoTask]
    ELSE IF s.has_cache /\ occupied_count(c) >= Capacity
    THEN [sched |-> s, cache |-> c, ret |-> NoTask]
    ELSE pop_loop(s, c)

\* complete_task that clears the count of tasks in flight
complete_task_resets(s) == [s EXCEPT !.active_tasks = 0]

complete_task(s) ==
    IF s.active_tasks > 0 THEN [s EXCEPT !.active_tasks = @ - 1] ELSE s

\* frames_to_prefetch, for i in i ..= prefetch_limit, with a cache attached
RECURSIVE prefetch_window(_, _, _, _)
prefetch_window(s, c, current_frame, i) ==
    LET frame_index == current_frame + i
        end == c.start_index + Capacity
        slot == get_slot_state(c, frame_index)
    IN  IF i > PrefetchCount THEN <<>>
        ELSE IF frame_index >= end THEN <<>>
        ELSE IF frame_index \in s.queued_frames
             THEN prefetch_window(s, c, current_frame, i + 1)
        ELSE IF slot # NoSlot /\ is_empty(slot)
             THEN <<task_new(frame_index)>> \o prefetch_window(s, c, current_frame, i + 1)
        ELSE prefetch_window(s, c, current_frame, i + 1)

\* frames_to_prefetch without a cache
RECURSIVE prefetch_plain(_, _, _)
prefetch_plain(s, current_frame, i) ==
    LET frame_index == current_frame + i
    IN  IF i > PrefetchCount THEN <<>>
        ELSE IF frame_index \notin s.queued_frames
             THEN <<task_new(frame_index)>> \o prefetch_plain(s, current_frame, i + 1)
             ELSE prefetch_plain(s, current_frame, i + 1)

RECURSIVE schedule_all(_, _)
schedule_all(s, tasks) ==
    IF tasks = <<>> THEN s
    ELSE schedule_all(schedule_task(s, Head(tasks)), Tail(tasks))

\* frames_to_prefetch that always takes the fallback without a cache
frames_to_prefetch_plain(s, c, current_frame) ==
    prefetch_plain(s, current_frame, 1)

frames_to_prefetch(s, c, current_frame) ==
    IF s.has_cache THEN prefetch_window(s, c, current_frame, 1)
    ELSE prefetch_plain(s, current_frame, 1)

prefetch(s, c, current_frame) ==
    schedule_all(s, frames_to_prefetch(s, c, current_frame))

\* ------------------------------------------------------------------ PolystreamRasterizer
\* `b as i8 as i32` of a byte
i8(b) == IF b >= 128 THEN b - 256 ELSE b
\* u16::from_le_bytes([lo, hi]) as i32
u16_from_le_bytes(lo, hi) == lo + 256 * hi
\* `x as f32` of an i32: exact up to 2^24, then the nearest even integer (ties to even)
as_f32(x) ==
    IF x >= -16777216 /\ x <= 16777216 THEN x
    ELSE IF x % 2 = 0 THEN x
    ELSE IF ((x - 1) \div 2) % 2 = 0 THEN x - 1 ELSE x + 1

\* the `while i + 1 < data.len()` loop of decode_polystream; i counts from 1 here
RECURSIVE decode_deltas(_, _, _, _)
decode_deltas(data, i, x, y) ==
    IF i + 1 <= Len(data)
    THEN LET nx == x + i8(data[i])
             ny == y + i8(data[i + 1])
         IN  <<<<nx, ny>>>> \o decode_deltas(data, i + 2, nx, ny)
    ELSE <<>>

decode_polystream(data) ==
    IF Len(data) < 4 THEN <<>>
    ELSE LET x == u16_from_le_bytes(data[1], data[2])
             y == u16_from_le_bytes(data[3], data[4])
         IN  <<<<x, y>>>> \o decode_deltas(data, 5, x, y)

\* a loop that emits the running triple v(i), v(i+1), v(i+2) instead of the fan
RECURSIVE fan_running(_, _)
fan_running(vertices, i) ==
    IF i >= Len(vertices) - 2 THEN <<>>
    ELSE <<vertices[i + 1], vertices[i + 2], vertices[i + 3]>> \o fan_running(vertices, i + 1)

\* the fan loop `for i in 0..vertices.len() - 2`, from i on: v0, v(i+1), v(i+2)
RECURSIVE fan(_, _)
fan(vertices, i) ==
    IF i >= Len(vertices) - 2 THEN <<>>
    ELSE <<vertices[1], vertices[i + 2], vertices[i + 3]>> \o fan(vertices, i + 1)

\* the x, y pairs of the strip as f32
RECURSIVE flatten(_)
flatten(strip) ==
    IF strip = <<>> THEN <<>>
    ELSE <<as_f32(Head(strip)[1]), as_f32(Head(strip)[2])>> \o flatten(Tail(strip))

\* the vertices the fan runs over: the points without a last point that repeats the first
closed_polygon_vertices(points) ==
    IF points[1] = points[Len(points)] /\ Len(points) > 1
    THEN SubSeq(points, 1, Len(points) - 1)
    ELSE points

polystream_to_triangle_strip(polystream) ==
    LET points == decode_polystream(polystream)
    IN  IF Len(points) < 3 THEN <<>>
        ELSE LET vertices == closed_polygon_vertices(points)
             IN  IF Len(vertices) < 3 THEN <<>>
                 ELSE flatten(fan(vertices, 0))

\* a Vec<u8> mask: its length, the indices set to 255, and whether a write or the
\* allocation panicked
Mask(n) == [len |-> n, lit |-> {}, panicked |-> FALSE]
Panicked == [len |-> 0, lit |-> {}, panicked |-> TRUE]
\* whether `width * height` overflows u32, for operands below 2^31
\* (2^32 - 1 = 2 * 2147483647 + 1, divided by b without leaving 32 bits)
mul_overflows(a, b) ==
    /\ b >= 3
    /\ a > 2 * (2147483647 \div b) + ((2 * (2147483647 % b) + 1) \div b)
\* a.wrapping_mul(b): exact when the product is below 2^31 or both are multiples of 2^16
wrapping_mul(a, b) ==
    IF a % 65536 = 0 /\ b % 65536 = 0 THEN 0 ELSE a * b
\* vec![0u8; (width * height) as usize]: a debug build panics on overflow, a release
\* build wraps
alloc_mask(width, height, build) ==
    IF mul_overflows(width, height) /\ build = "debug" THEN Panicked
    ELSE Mask(wrapping_mul(width, height))

\* mask[(y * width + x) as usize] = 255, bounds-checked
set_pixel(mask, width, x, y) ==
    IF mask.len = 0 \/ y * width + x >= mask.len
    THEN [mask EXCEPT !.panicked = TRUE]
    ELSE [mask EXCEPT !.lit = @ \cup {y * width + x}]

\* v.max(0).min(hi)
clip(v, hi) == Min(IF v > 0 THEN v ELSE 0, hi)
abs(v) == IF v < 0 THEN -v ELSE v

\* the loop of draw_line
RECURSIVE bresenham(_, _, _, _, _, _, _, _, _, _, _, _)
bresenham(mask, width, height, x0, y0, x1, y1, dx, dy, sx, sy, err) ==
    LET inside == x0 >= 0 /\ x0 < width /\ y0 >= 0 /\ y0 < height
        m == IF inside THEN set_pixel(mask, width, x0, y0) ELSE mask
        e2 == 2 * err
        stepx == e2 > -dy
        stepy == e2 < dx
    IN  IF m.panicked THEN m
        ELSE IF x0 = x1 /\ y0 = y1 THEN m
        ELSE bresenham(m, width, height,
                       IF stepx THEN x0 + sx ELSE x0,
                       IF stepy THEN y0 + sy ELSE y0,
                       x1, y1, dx, dy, sx, sy,
                       (IF stepx THEN err - dy ELSE err) + (IF stepy THEN dx ELSE 0))

draw_line(mask, width, height, px0, py0, px1, py1) ==
    LET x0 == clip(px0, width - 1)
        y0 == clip(py0, height - 1)
        x1 == clip(px1, width - 1)
        y1 == clip(py1, height - 1)
        dx == abs(x1 - x0)
        dy == abs(y1 - y0)
    IN  bresenham(mask, width, height, x0, y0, x1, y1, dx, dy,
                  IF x0 < x1 THEN 1 ELSE -1, IF y0 < y1 THEN 1 ELSE -1, dx - dy)

\* the segments scanline_fill_polygon draws: points.windows(2), then the closing one
segments(points) ==
    [k \in 1 .. (Len(points) - 1) |-> <<points[k][1], points[k][2],
                                        points[k + 1][1], points[k + 1][2]>>]
        \o (IF points[1] # points[Len(points)]
            THEN <<<<points[Len(points)][1], points[Len(points)][2],
                     points[1][1], points[1][2]>>>>
            ELSE <<>>)

RECURSIVE draw_lines(_, _, _, _)
draw_lines(mask, width, height, segs) ==
    IF segs = <<>> \/ mask.panicked THEN mask
    ELSE draw_lines(draw_line(mask, width, height, Head(segs)[1], Head(segs)[2],
                              Head(segs)[3], Head(segs)[4]),
                    width, height, Tail(segs))

\* (p / q).round() for integers p and q # 0: to the nearest, halves away from zero
round_div(p, q) ==
    LET n == IF q < 0 THEN -p ELSE p
        d == abs(q)
    IN  IF n >= 0 THEN (2 * n + d) \div (2 * d) ELSE -((2 * (-n) + d) \div (2 * d))

\* x_int of an edge on scanline y
x_int(e, y) ==
    IF e[1] = e[3] THEN e[1]
    ELSE round_div(e[1] * (e[4] - e[2]) + (y - e[2]) * (e[3] - e[1]), e[4] - e[2])

\* xs.sort()
RECURSIVE sort_insert(_, _)
sort_insert(xs, v) ==
    IF xs = <<>> THEN <<v>>
    ELSE IF v <= Head(xs) THEN <<v>> \o xs
    ELSE <<Head(xs)>> \o sort_insert(Tail(xs), v)
RECURSIVE sort(_)
sort(xs) == IF xs = <<>> THEN <<>> ELSE sort_insert(sort(Tail(xs)), Head(xs))

\* the crossings of scanline y, sorted
crossings(segs, y) ==
    LET active == SelectSeq(segs, LAMBDA e :
                      /\ e[4] # e[2]
                      /\ y >= Min(e[2], e[4])
                      /\ y < (IF e[2] > e[4] THEN e[2] ELSE e[4]))
    IN  sort([k \in 1 .. Len(active) |-> x_int(active[k], y)])

\* the pixels of row y between the crossings 0 and 1, 2 and 3, ...
row_fill(segs, width, y) ==
    LET xs == crossings(segs, y)
    IN  IF Len(xs) < 2 THEN {}
        ELSE UNION {{<<x, y>> : x \in (IF xs[2 * k - 1] > 0 THEN xs[2 * k - 1] ELSE 0)
                                      .. Min(xs[2 * k], width - 1)}
                    : k \in 1 .. (Len(xs) \div 2)}

RECURSIVE fill_rows(_, _, _, _, _)
fill_rows(mask, segs, width, height, y) ==
    IF y >= height \/ mask.panicked THEN mask
    ELSE LET px == row_fill(segs, width, y)
             bad == \E p \in px : mask.len = 0 \/ p[2] * width + p[1] >= mask.len
         IN  IF bad THEN [mask EXCEPT !.panicked = TRUE]
             ELSE fill_rows([mask EXCEPT !.lit = @ \cup {p[2] * width + p[1] : p \in px}],
                            segs, width, height, y + 1)

scanline_fill_polygon(points, width, height, build) ==
    IF Len(points) < 3 THEN alloc_mask(width, height, build)
    ELSE LET mask == alloc_mask(width, height, build)
             drawn == draw_lines(mask, width, height, segments(points))
         IN  IF mask.panicked THEN mask
             ELSE fill_rows(drawn, segments(points), width, height, 0)

rasterize(polystream, width, height, build) ==
    LET points == decode_polystream(polystream)
    IN  IF Len(points) < 3 THEN alloc_mask(width, height, build)
        ELSE scanline_fill_polygon(points, width, height, build)

\* ------------------------------------------------------------------ bytes, zlib and the cipher
\* n.to_le_bytes() of a w-byte unsigned integer
RECURSIVE to_le_bytes(_, _)
to_le_bytes(n, w) ==
    IF w = 0 THEN <<>> ELSE <<n % 256>> \o to_le_bytes(n \div 256, w - 1)
\* uN::from_le_bytes; a value of 2^30 or more reads as 2^30, longer than any file here
RECURSIVE from_le_bytes(_)
from_le_bytes(bytes) ==
    IF bytes = <<>> THEN 0
    ELSE LET hi == from_le_bytes(Tail(bytes))
         IN  IF hi >= 4194304 THEN 1073741824 ELSE Head(bytes) + 256 * hi

\* a Result: Ok(value) or Err(kind), where kind names the FormatError variant
Ok(value) == [ok |-> TRUE, err |-> "", value |-> value]
Err(kind) == [ok |-> FALSE, err |-> kind, value |-> <<>>]

\* the Adler-32 sums of a zlib stream
RECURSIVE adler32(_, _, _)
adler32(data, a, b) ==
    IF data = <<>> THEN <<a, b>>
    ELSE adler32(Tail(data), (a + Head(data)) % 65521, (b + a + Head(data)) % 65521)
adler32_be(data) ==
    LET ab == adler32(data, 1, 0)
    IN  <<ab[2] \div 256, ab[2] % 256, ab[1] \div 256, ab[1] % 256>>

\* flate2's ZlibEncoder: a zlib stream of the data. The stream is written with one
\* stored block (header 78 01, block 01, LEN, NLEN, the bytes, the Adler-32)
compress_zlib(data) ==
    <<120, 1, 1>> \o to_le_bytes(Len(data), 2) \o to_le_bytes(65535 - Len(data), 2)
        \o data \o adler32_be(data)

\* flate2's ZlibDecoder, read to the end of the stream: FormatError::Zlib on a bad stream
decompress_zlib(z) ==
    IF Len(z) < 11 \/ z[1] # 120 \/ z[2] # 1 \/ z[3] # 1 THEN Err("Zlib")
    ELSE LET n == from_le_bytes(SubSeq(z, 4, 5))
         IN  IF from_le_bytes(SubSeq(z, 6, 7)) # 65535 - n \/ Len(z) < 11 + n
             THEN Err("Zlib")
             ELSE LET data == SubSeq(z, 8, 7 + n)
                  IN  IF SubSeq(z, 8 + n, 11 + n) # adler32_be(data) THEN Err("Zlib")
                      ELSE Ok(data)

\* a ^ b on bytes
RECURSIVE xor(_, _, _)
xor(a, b, bits) ==
    IF bits = 0 THEN 0
    ELSE ((a + b) % 2) + 2 * xor(a \div 2, b \div 2, bits - 1)

\* scrypt(PASSPHRASE, salt): the key stands for the 32 bytes derived; it is a function
\* of every byte of the salt
RECURSIVE scrypt(_, _)
scrypt(salt, h) ==
    IF salt = <<>> THEN h ELSE scrypt(Tail(salt), (h * 31 + Head(salt) + 1) % 65521)
\* salt = scene_id (little-endian u32) + version + base_url
derive_key(scene_id, version, base_url) ==
    scrypt(to_le_bytes(scene_id, 4) \o version \o base_url, 7)

\* the nonce's last four bytes: key_id.to_le_bytes(); 0xFFFFFFFF for header and sizes
HeaderKeyId == <<255, 255, 255, 255>>
FrameKeyId(i) == to_le_bytes(i, 4)
\* byte p of the ChaCha20 keystream for a key and a nonce: a function of the three
keystream(key, key_id, p) ==
    (key * 7 + key_id[1] * 3 + key_id[2] * 5 + key_id[3] * 11 + key_id[4] * 13
         + p * 17 + 1) % 256
\* cipher.apply_keystream from position 0
apply_keystream(data, key, key_id) ==
    [p \in 1 .. Len(data) |-> xor(data[p], keystream(key, key_id, p - 1), 8)]
decrypt_frame_data(data, key, key_id) == apply_keystream(data, key, key_id)
encrypt_frame_data(data, key, key_id) == apply_keystream(data, key, key_id)

\* ------------------------------------------------------------------ ASVP and ASVR containers
\* the bytes of several buffers written one after the other
RECURSIVE concat(_)
concat(buffers) ==
    IF buffers = <<>> THEN <<>> ELSE Head(buffers) \o concat(Tail(buffers))

\* frame_sizes.iter().flat_map(|s| s.to_le_bytes()): one little-endian u64 per frame
sizes_bytes(frame_sizes) ==
    concat([i \in 1 .. Len(frame_sizes) |-> to_le_bytes(frame_sizes[i], 8)])

\* the 16-byte header: 8 bytes of magic, 4 zero bytes, compressed_sizes.len() as u32
header(magic, compressed_sizes) ==
    magic \o <<0, 0, 0, 0>> \o to_le_bytes(Len(compressed_sizes), 4)
ASVPMagic == <<65, 83, 86, 80, 80, 76, 78, 49>>
ASVRMagic == <<4, 0, 0, 0, 0, 0, 0, 0>>

\* a frame whose 4-byte prefix is the length of the compressed data
frame_data_compressed_len(polystream) ==
    to_le_bytes(Len(compress_zlib(polystream)), 4) \o compress_zlib(polystream)
\* a frame on disk before encryption: the uncompressed length, then the zlib stream
frame_data(polystream) ==
    to_le_bytes(Len(polystream), 4) \o compress_zlib(polystream)

\* ASVPWriter: header, compressed sizes table and frames, for a table and frames given
ASVPWrite(table, compressed_frames) ==
    LET compressed_sizes == compress_zlib(table)
    IN  header(ASVPMagic, compressed_sizes) \o compressed_sizes \o concat(compressed_frames)
\* ASVPWriter::write_all
ASVPWriter_write_all(frames) ==
    LET compressed_frames == [i \in 1 .. Len(frames) |-> frame_data(frames[i].polystream)]
        frame_sizes == [i \in 1 .. Len(frames) |-> Len(compressed_frames[i])]
    IN  ASVPWrite(sizes_bytes(frame_sizes), compressed_frames)

\* ASVRWriter: header and sizes table encrypted together with key_id 0xFFFFFFFF, then
\* the frames, frame i encrypted with key_id i
ASVRWrite(key, table, plaintext_frames) ==
    LET compressed_sizes == compress_zlib(table)
        to_encrypt == header(ASVRMagic, compressed_sizes) \o compressed_sizes
        encrypted_frames ==
            [i \in 1 .. Len(plaintext_frames) |->
                encrypt_frame_data(plaintext_frames[i], key, FrameKeyId(i - 1))]
    IN  encrypt_frame_data(to_encrypt, key, HeaderKeyId) \o concat(encrypted_frames)
\* ASVRWriter::write_all
ASVRWriter_write_all(key, frames) ==
    LET plaintext_channels == [i \in 1 .. Len(frames) |-> frame_data(frames[i].polystream)]
        frame_sizes == [i \in 1 .. Len(frames) |-> Len(plaintext_channels[i])]
    IN  ASVRWrite(key, sizes_bytes(frame_sizes), plaintext_channels)

\* AsyncReadExt::read_exact of n bytes at a position: an I/O error past the end
read_exact(file, pos, n) ==
    IF n > Len(file) \/ pos > Len(file) - n THEN Err("Io")
    ELSE Ok(SubSeq(file, pos + 1, pos + n))

\* a frame index whose offsets are not advanced by the sizes: every frame at body_base
RECURSIVE frame_index_table_flat(_, _)
frame_index_table_flat(sizes_raw, offset) ==
    IF Len(sizes_raw) < 8 THEN [frame_sizes |-> <<>>, frame_offsets |-> <<>>]
    ELSE LET size == from_le_bytes(SubSeq(sizes_raw, 1, 8))
             rest == frame_index_table_flat(SubSeq(sizes_raw, 9, Len(sizes_raw)), offset)
         IN  [frame_sizes |-> <<size>> \o rest.frame_sizes,
              frame_offsets |-> <<offset>> \o rest.frame_offsets]

\* the frame index built from the sizes table: sizes and cumulative offsets from body_base
RECURSIVE frame_index_table(_, _)
frame_index_table(sizes_raw, offset) ==
    IF Len(sizes_raw) < 8 THEN [frame_sizes |-> <<>>, frame_offsets |-> <<>>]
    ELSE LET size == from_le_bytes(SubSeq(sizes_raw, 1, 8))
             rest == frame_index_table(SubSeq(sizes_raw, 9, Len(sizes_raw)),
                                       Min(offset + size, 1073741824))
         IN  [frame_sizes |-> <<size>> \o rest.frame_sizes,
              frame_offsets |-> <<offset>> \o rest.frame_offsets]

\* no deserializer: what new() leaves behind when it returns Err
NoFormat(kind) ==
    [ok |-> FALSE, err |-> kind, key |-> 0, frame_count |-> 0,
     compressed_sizes_size |-> 0, frame_offsets |-> <<>>, frame_sizes |-> <<>>]

\* new() without the check of the sizes table's length: chunks_exact drops the rest
load_sizes_unchecked(sizes_raw, compressed_sizes_size, key) ==
    LET table == frame_index_table(sizes_raw, 16 + compressed_sizes_size)
    IN  [ok |-> TRUE, err |-> "", key |-> key,
         frame_count |-> Len(table.frame_sizes),
         compressed_sizes_size |-> compressed_sizes_size,
         frame_offsets |-> table.frame_offsets, frame_sizes |-> table.frame_sizes]
\* the end of new(): the sizes table must be whole u64s; then the index and the metadata
load_sizes(sizes_raw, compressed_sizes_size, key) ==
    IF Len(sizes_raw) % 8 # 0 THEN NoFormat("InvalidFormat")
    ELSE LET table == frame_index_table(sizes_raw, 16 + compressed_sizes_size)
         IN  [ok |-> TRUE, err |-> "", key |-> key,
              frame_count |-> Len(table.frame_sizes),
              compressed_sizes_size |-> compressed_sizes_size,
              frame_offsets |-> table.frame_offsets, frame_sizes |-> table.frame_sizes]

\* ASVPFormat::new
ASVPFormat_new(file) ==
    LET hdr == read_exact(file, 0, 16)
    IN  IF ~hdr.ok THEN NoFormat(hdr.err)
        ELSE LET compressed_sizes_size == from_le_bytes(SubSeq(hdr.value, 13, 16))
                 compressed_sizes == read_exact(file, 16, compressed_sizes_size)
             IN  IF ~compressed_sizes.ok THEN NoFormat(compressed_sizes.err)
                 ELSE LET sizes_raw == decompress_zlib(compressed_sizes.value)
                      IN  IF ~sizes_raw.ok THEN NoFormat(sizes_raw.err)
                          ELSE load_sizes(sizes_raw.value, compressed_sizes_size, 0)

\* ASVRFormat::new with the key derived from (scene_id, version, base_url)
ASVRFormat_new(file, key) ==
    LET encrypted_header == read_exact(file, 0, 16)
    IN  IF ~encrypted_header.ok THEN NoFormat(encrypted_header.err)
        ELSE LET hdr == decrypt_frame_data(encrypted_header.value, key, HeaderKeyId)
                 compressed_sizes_size == from_le_bytes(SubSeq(hdr, 13, 16))
                 encrypted_sizes == read_exact(file, 16, compressed_sizes_size)
             IN  IF ~encrypted_sizes.ok THEN NoFormat(encrypted_sizes.err)
                 ELSE LET combined == encrypted_header.value \o encrypted_sizes.value
                          decrypted_combined == decrypt_frame_data(combined, key, HeaderKeyId)
                          sizes_raw == decompress_zlib(
                              SubSeq(decrypted_combined, 17, Len(decrypted_combined)))
                      IN  IF ~sizes_raw.ok THEN NoFormat(sizes_raw.err)
                          ELSE load_sizes(sizes_raw.value, compressed_sizes_size, key)

\* channel_sizes.iter().sum() over the payload's header
RECURSIVE channel_sizes_sum(_, _)
channel_sizes_sum(decompressed, channel_count) ==
    IF channel_count = 0 THEN 0
    ELSE Min(from_le_bytes(SubSeq(decompressed, 4 * channel_count + 1, 4 * channel_count + 4))
                 + channel_sizes_sum(decompressed, channel_count - 1), 1073741824)

\* the frame after reading (and decrypting): length prefix, zlib stream, payload header
parse_frame(frame) ==
    IF Len(frame) < 4 THEN Err("InvalidFormat")
    ELSE LET expected_len == from_le_bytes(SubSeq(frame, 1, 4))
             decompressed == decompress_zlib(SubSeq(frame, 5, Len(frame)))
         IN  IF ~decompressed.ok THEN decompressed
             ELSE IF Len(decompressed.value) # expected_len THEN Err("InvalidFormat")
             ELSE IF Len(decompressed.value) < 4 THEN Err("InvalidFormat")
             ELSE LET channel_count == from_le_bytes(SubSeq(decompressed.value, 1, 4))
                      header_size == 4 + Min(channel_count, 4194304) * 4
                  IN  IF Len(decompressed.value) < header_size THEN Err("InvalidFormat")
                      ELSE IF channel_sizes_sum(decompressed.value, channel_count)
                                  # Len(decompressed.value) - header_size
                           THEN Err("InvalidFormat")
                           ELSE Ok(decompressed.value)

\* the result of decode_frame: the FrameData's polystream or the error, with the index
\* of the frame that was read
Decoded(result, frame_index) ==
    [ok |-> result.ok, err |-> result.err, polystream |-> result.value,
     frame_index |-> frame_index]
\* frame_sizes.len() as u32 - 1 underflows and frame_offsets[..] is out of bounds
DecodePanicked == Decoded(Err("panic"), -1)

\* a clamp that wraps around to the first frames
clamp_wraps(frame_index, frame_count) == frame_index % frame_count
\* clamp to max frame index
clamp(frame_index, frame_count) ==
    IF frame_index >= frame_count THEN frame_count - 1 ELSE frame_index

\* ASVPFormat::decode_frame
ASVPFormat_decode_frame(format, file, frame_index) ==
    IF Len(format.frame_sizes) = 0 THEN DecodePanicked
    ELSE LET index == clamp(frame_index, Len(format.frame_sizes))
             frame == read_exact(file, format.frame_offsets[index + 1],
                                 format.frame_sizes[index + 1])
         IN  IF ~frame.ok THEN Decoded(frame, index)
             ELSE Decoded(parse_frame(frame.value), index)

\* ASVRFormat::decode_frame: the frame is decrypted with key_id = frame_index
ASVRFormat_decode_frame(format, file, frame_index) ==
    IF Len(format.frame_sizes) = 0 THEN DecodePanicked
    ELSE LET index == clamp(frame_index, Len(format.frame_sizes))
             encrypted_frame == read_exact(file, format.frame_offsets[index + 1],
                                           format.frame_sizes[index + 1])
         IN  IF ~encrypted_frame.ok THEN Decoded(encrypted_frame, index)
             ELSE Decoded(parse_frame(decrypt_frame_data(encrypted_frame.value, format.key,
                                                         FrameKeyId(index))), index)

\* ------------------------------------------------------------------ processing of a decoded frame
\* AlphaStreamProcessor::parse_polystream: the channel sizes and the channel data
RECURSIVE channel_sizes(_, _, _)
channel_sizes(polystream, channel_count, i) ==
    IF i >= channel_count THEN <<>>
    ELSE <<from_le_bytes(SubSeq(polystream, 4 + i * 4 + 1, 4 + i * 4 + 4))>>
             \o channel_sizes(polystream, channel_count, i + 1)
parse_polystream(polystream) ==
    LET channel_count == from_le_bytes(SubSeq(polystream, 1, 4))
    IN  [channel_count |-> channel_count,
         channel_sizes |-> channel_sizes(polystream, channel_count, 0),
         channel_data |-> SubSeq(polystream, 4 + channel_count * 4 + 1, Len(polystream))]

\* the slices &channel_data[offset..offset + size], one per channel
RECURSIVE channel_slices(_, _, _)
channel_slices(sizes, channel_data, offset) ==
    IF sizes = <<>> THEN <<>>
    ELSE <<SubSeq(channel_data, offset + 1, offset + Head(sizes))>>
             \o channel_slices(Tail(sizes), channel_data, offset + Head(sizes))

\* the bitmap of ProcessingMode::Bitmap and Both: every channel rasterized, and a pixel
\* set to 255 where a channel's mask is lit
RECURSIVE merge_masks(_, _, _, _, _)
merge_masks(mask, slices, width, height, build) ==
    IF slices = <<>> \/ mask.panicked THEN mask
    ELSE LET channel_mask == rasterize(Head(slices), width, height, build)
         IN  IF channel_mask.panicked THEN Panicked
             ELSE merge_masks([mask EXCEPT !.lit = @ \cup channel_mask.lit],
                              Tail(slices), width, height, build)

\* the vertices of ProcessingMode::TriangleStrip and Both: the channels' strips in order
RECURSIVE extend_strips(_)
extend_strips(slices) ==
    IF slices = <<>> THEN <<>>
    ELSE polystream_to_triangle_strip(Head(slices)) \o extend_strips(Tail(slices))

\* the processed_frame a decode job builds in ProcessingMode::Both
processed_frame(polystream, width, height, build) ==
    LET parsed == parse_polystream(polystream)
        slices == channel_slices(parsed.channel_sizes, parsed.channel_data, 0)
    IN  [polystream |-> polystream,
         bitmap |-> merge_masks(alloc_mask(width, height, build), slices, width, height, build),
         triangle_strip |-> extend_strips(slices)]

\* ------------------------------------------------------------------ locks
\* the scheduler's and the deserializer's tokio Mutex (api.rs), the tokio Mutex around
\* the reader (formats.rs) and the RwLock around the cache's buffer (cache.rs)
LockNames == {"scheduler", "deserializer", "reader", "buffer"}
\* what a task does at the locks, in program order: lock() or write() (exclusive),
\* read() (shared), the drop of a guard, tokio::spawn of a job, running_tasks.next()
Acquire(lock, exclusive) == [ins |-> "acquire", lock |-> lock, exclusive |-> exclusive]
Release(lock) == [ins |-> "release", lock |-> lock, exclusive |-> FALSE]
Spawn == [ins |-> "spawn", lock |-> "", exclusive |-> FALSE]
Join == [ins |-> "join", lock |-> "", exclusive |-> FALSE]

RECURSIVE repeat(_, _)
repeat(program, n) == IF n = 0 THEN <<>> ELSE program \o repeat(program, n - 1)

\* a cache method under buffer.read().unwrap(): get, contains, get_slot_state
buffer_read == <<Acquire("buffer", FALSE), Release("buffer")>>
\* a cache method under buffer.write().unwrap(): insert, mark_in_progress,
\* invalidate_internal, advance_start
buffer_write == <<Acquire("buffer", TRUE), Release("buffer")>>
\* update_play_head that calls invalidate_internal with the write guard still held
update_play_head_locks_nested ==
    {<<>>, <<Acquire("buffer", TRUE)>> \o buffer_write \o <<Release("buffer")>>}
\* update_play_head: a forward move in the window takes no lock; a seek takes the write
\* lock in invalidate_internal, a slide in advance_start
update_play_head_locks == {<<>>, buffer_write}
\* prefetch: get_slot_state for the frames ahead that are in the window and not queued
prefetch_locks == {repeat(buffer_read, n) : n \in 0 .. PrefetchCount}
\* metadata: deserializer.lock().await, deserializer.metadata().await, the guard dropped
metadata_locks == <<Acquire("deserializer", TRUE), Release("deserializer")>>
\* get_frame: update_play_head, scheduler.lock().await, cache.get; on a miss
\* schedule_task and prefetch; the guard is dropped on return
get_frame_locks ==
    {u \o <<Acquire("scheduler", TRUE)>> \o buffer_read \o miss \o <<Release("scheduler")>> :
        u \in update_play_head_locks, miss \in prefetch_locks}
\* get_triangle_strip_vertices: update_play_head and cache.get first; on a miss
\* scheduler.lock().await, schedule_task and prefetch
get_triangle_strip_vertices_locks ==
    {u \o buffer_read \o miss :
        u \in update_play_head_locks,
        miss \in {<<>>} \cup {<<Acquire("scheduler", TRUE)>> \o f \o <<Release("scheduler")>> :
                                 f \in prefetch_locks}}
\* request_frame: metadata(), the bounds check, cache.contains (a read when the frame
\* is in range), scheduler.lock().await and schedule_task
request_frame_locks ==
    {metadata_locks \o rest :
        rest \in {<<>>, buffer_read,
                  <<Acquire("scheduler", TRUE), Release("scheduler")>>,
                  buffer_read \o <<Acquire("scheduler", TRUE), Release("scheduler")>>}}
\* a decode job: deserializer.lock().await held to the end of the job; decode_frame
\* locks the reader for seek and read_exact; cache.insert when the generation is
\* unchanged takes the write lock when the frame is in range
job_locks ==
    {<<Acquire("deserializer", TRUE), Acquire("reader", TRUE), Release("reader")>> \o commit
         \o <<Release("deserializer")>> :
        commit \in {<<>>, buffer_write}}
\* one turn of the worker loop: under the scheduler lock, next_task (mark_in_progress)
\* and tokio::spawn for n tasks; then running_tasks.next().await and complete_task
\* under the scheduler lock, or the sleep when nothing is running
worker_locks(n, running) ==
    <<Acquire("scheduler", TRUE)>> \o repeat(buffer_write \o <<Spawn>>, n)
        \o <<Release("scheduler")>>
        \o (IF running THEN <<Join, Acquire("scheduler", TRUE), Release("scheduler")>>
            ELSE <<>>)

\* the tasks at the locks: two threads calling the API, the worker loop, and the places
\* of running_tasks, one decode job at a time
LockCallers == {"a", "b"}
LockWorker == "loop"
LockJobs == {"j1"}
LockTasks == LockCallers \cup {LockWorker} \cup LockJobs
\* a task: the call it is in, what it has left to do, the guards it holds
LockTask(op, todo, holds) == [op |-> op, todo |-> todo, holds |-> holds]
IdleTask == LockTask("none", <<>>, {})
\* a request waiting in the queue of a lock
Waiter(task, exclusive) == [task |-> task, exclusive |-> exclusive]
NoLocks == [task |-> [p \in LockTasks |-> IdleTask], queue |-> [l \in LockNames |-> <<>>]]

\* ------------------------------------------------------------------ state
VARIABLES
    cache,      \* the RingBufferCache shared by API, scheduler and worker
    sched,      \* the Scheduler
    last,       \* the last call made and what it returned
    tracked,    \* history: one frame index chosen at construction, or None
    inserted,   \* history: the payload of the most recent insert(tracked, .) that returned true
    caller,     \* the thread calling get_frame: where it is, and the frame it asked for
    worker,     \* the background worker loop: where it is, and the task just dequeued
    jobs,       \* running_tasks: the bag of spawned decode jobs
    mutex,      \* who holds the scheduler's tokio Mutex: "free", "caller" or "worker"
    threads,    \* the threads inside a cache method: the method, where it is, its locals
    writes,     \* history: the frame indices for which a thread's insert returned true
    heap,       \* the cells behind two RingBufferCache values, c1 and its clone c2
    rast,       \* a call of the rasterizer: its input bytes, dimensions and outputs
    fmt,        \* a container: the writer's frames, the bytes written, the opened format
    locks       \* the tasks at the locks: what each still has to do, holds and waits for

sysVars == <<caller, worker, jobs, mutex, threads, writes, heap, rast, fmt, locks>>
vars == <<cache, sched, last, tracked, inserted, caller, worker, jobs, mutex, threads, writes,
          heap, rast, fmt, locks>>

\* the threads that share the cache: two writers, one reader, one that moves the play head
Writers == {"w1", "w2"}
Readers == {"r"}
Seekers == {"u"}
ThreadIds == Writers \cup Readers \cup Seekers
\* a thread that has not called anything yet
NoCall == [op |-> "none", pc |-> "idle", frame_index |-> None, start |-> None, ret |-> "none"]

\* no cache was cloned, the rasterizer was not called, no container was written
\* a RingBufferCache object: where its RwLock<Vec<FrameSlot>> and its atomics live
Obj(buffer_at, atomics_at) == [buffer_at |-> buffer_at, atomics_at |-> atomics_at]
NoObj == Obj(None, None)
NoHeap == [cells |-> <<>>, c1 |-> NoObj, c2 |-> NoObj, target |-> "none"]
NoMask == [len |-> 0, lit |-> {}, panicked |-> FALSE]
RastCall(op, data, width, height, build, vertices, mask) ==
    [op |-> op, data |-> data, width |-> width, height |-> height, build |-> build,
     vertices |-> vertices, mask |-> mask]
NoRast == RastCall("none", <<>>, 0, 0, "none", <<>>, NoMask)
\* a container being written and read back: the writer's frames and key, the file, what
\* is wrong with the file, the key new() derived, the deserializer new() returned and
\* the last decode_frame
FmtState(pc, variant, key, frames, defect, file, reader_key, format, index, result) ==
    [pc |-> pc, variant |-> variant, key |-> key, frames |-> frames, defect |-> defect,
     file |-> file, reader_key |-> reader_key, format |-> format, index |-> index,
     result |-> result]
NoDefect == [kind |-> "none", frame |-> 0]
NoDecoded == Decoded(Err(""), -1)
NoFmt == FmtState("none", "none", 0, <<>>, NoDefect, <<>>, 0, NoFormat(""), 0, NoDecoded)

InitIdle ==
    /\ caller = [pc |-> "idle", frame |-> None]
    /\ worker = [pc |-> "idle", frame |-> None, dequeued_at |-> None]
    /\ jobs = EmptyBag
    /\ mutex = "free"
    /\ threads = [t \in ThreadIds |-> NoCall]
    /\ writes = {}
    /\ locks = NoLocks

InitSys ==
    /\ InitIdle
    /\ heap = NoHeap
    /\ rast = NoRast
    /\ fmt = NoFmt

\* a call's name, what it returned ("true", "false", or "none" for no value) and, for
\* update_play_head, the branch it took
Call(op, ret, branch) == [op |-> op, ret |-> ret, branch |-> branch]
Bool(b) == IF b THEN "true" ELSE "false"

Init ==
    /\ cache = new_cache
    /\ sched = new_scheduler(FALSE)
    /\ last = Call("new", "none", "")
    /\ tracked = None
    /\ inserted = NoData
    /\ InitSys

\* ------------------------------------------------------------------ cache API
Get(i) ==
    /\ last' = Call("get", Bool(get(cache, i) # NoData), "")
    /\ UNCHANGED <<cache, sched, tracked, inserted>>
    /\ UNCHANGED sysVars

Insert(i, d) ==
    /\ cache' = insert(cache, i, d)
    /\ last' = Call("insert", Bool(insert_ok(cache, i)), "")
    /\ inserted' = IF i = tracked /\ insert_ok(cache, i) THEN d ELSE inserted
    /\ UNCHANGED <<sched, tracked>>
    /\ UNCHANGED sysVars

MarkInProgress(i) ==
    /\ cache' = mark_in_progress(cache, i)
    /\ last' = Call("mark_in_progress", Bool(mark_in_progress_ok(cache, i)), "")
    /\ UNCHANGED <<sched, tracked, inserted>>
    /\ UNCHANGED sysVars

Invalidates(i) == seek_branch(cache, i) \in {"backward", "large_forward"}

UpdatePlayHead(i) ==
    /\ Invalidates(i) => cache.generation < MaxGen
    /\ cache' = update_play_head(cache, i)
    /\ last' = Call("update_play_head", Bool(update_play_head_ret(cache, i)), seek_branch(cache, i))
    /\ UNCHANGED <<sched, tracked, inserted>>
    /\ UNCHANGED sysVars

Clear ==
    /\ cache.generation < MaxGen
    /\ cache' = clear(cache)
    /\ last' = Call("clear", "none", "")
    /\ UNCHANGED <<sched, tracked, inserted>>
    /\ UNCHANGED sysVars

AdvanceStart(n) ==
    /\ cache' = advance_start(cache, n)
    /\ last' = Call("advance_start", "none", "")
    /\ UNCHANGED <<sched, tracked, inserted>>
    /\ UNCHANGED sysVars

Next ==
    \/ \E i \in Frames : Get(i)
    \/ \E i \in Frames, d \in Data : Insert(i, d)
    \/ \E i \in Frames : MarkInProgress(i)
    \/ \E i \in Frames : UpdatePlayHead(i)
    \/ Clear
    \/ \E n \in Frames : AdvanceStart(n)

Spec == Init /\ [][Next]_vars

\* the cache as get_frame and the worker use it: no direct call of advance_start
NextWindow ==
    \/ \E i \in Frames : Get(i)
    \/ \E i \in Frames, d \in Data : Insert(i, d)
    \/ \E i \in Frames : MarkInProgress(i)
    \/ \E i \in Frames : UpdatePlayHead(i)
    \/ Clear

SpecWindow == Init /\ [][NextWindow]_vars

\* ------------------------------------------------------------------ key integrity
\* the cache API with one frame index tracked and two payloads
KeyFrames == 0 .. Capacity

InitKey ==
    /\ cache = new_cache
    /\ sched = new_scheduler(FALSE)
    /\ last = Call("new", "none", "")
    /\ tracked \in KeyFrames
    /\ inserted = NoData
    /\ InitSys

NextKey ==
    \/ \E i \in KeyFrames : Get(i)
    \/ \E i \in KeyFrames, d \in KeyData : Insert(i, d)
    \/ \E i \in KeyFrames : MarkInProgress(i)
    \/ \E i \in KeyFrames : UpdatePlayHead(i)
    \/ Clear
    \/ \E n \in KeyFrames : AdvanceStart(n)

SpecKey == InitKey /\ [][NextKey]_vars

\* ------------------------------------------------------------------ scheduler API
InitSched ==
    /\ cache = new_cache
    /\ \E has_cache \in BOOLEAN : sched = new_scheduler(has_cache)
    /\ last = Call("new", "none", "")
    /\ tracked = None
    /\ inserted = NoData
    /\ InitSys

ScheduleTask(i, p) ==
    /\ i \in sched.queued_frames \/ Len(sched.task_queue) < MaxQueue
    /\ sched' = schedule_task(sched, Task(i, p))
    /\ last' = Call("schedule_task", "none", schedule_branch(sched, Task(i, p)))
    /\ UNCHANGED <<cache, tracked, inserted>>
    /\ UNCHANGED sysVars

NextTask ==
    LET r == next_task(sched, cache)
    IN  /\ sched' = r.sched
        /\ cache' = r.cache
        /\ last' = Call("next_task", Bool(r.ret # NoTask),
                        IF /\ sched.has_cache
                           /\ Len(r.sched.task_queue) + 1 < Len(sched.task_queue)
                        THEN "dropped" ELSE "")
        /\ UNCHANGED <<tracked, inserted>>
    /\ UNCHANGED sysVars

CompleteTask ==
    /\ sched' = complete_task(sched)
    /\ last' = Call("complete_task", "none", "")
    /\ UNCHANGED <<cache, tracked, inserted>>
    /\ UNCHANGED sysVars

Prefetch(current_frame) ==
    /\ Len(prefetch(sched, cache, current_frame).task_queue) <= MaxQueue
    /\ sched' = prefetch(sched, cache, current_frame)
    /\ last' = Call("prefetch", "none",
                    IF /\ sched.has_cache
                       /\ current_frame + PrefetchCount >= cache.start_index + Capacity
                       /\ prefetch(sched, cache, current_frame) # sched
                    THEN "clipped" ELSE "")
    /\ UNCHANGED <<cache, tracked, inserted>>
    /\ UNCHANGED sysVars

NextSched ==
    \/ \E i \in SchedFrames, p \in Priorities : ScheduleTask(i, p)
    \/ NextTask
    \/ CompleteTask
    \/ \E i \in SchedFrames : Prefetch(i)
    \/ \E i \in SchedFrames, d \in Data : sched.has_cache /\ Insert(i, d)
    \/ \E n \in 1 .. 2 : sched.has_cache /\ AdvanceStart(n)

SpecSched == InitSched /\ [][NextSched]_vars

\* ------------------------------------------------------------------ get_frame and the worker loop
SysFrames == 0 .. SysMaxFrame
SeqFrames == 0 .. SeqMaxFrame

\* a spawned decode job: `run` until decode_frame and the rasterizer are through,
\* `commit` between the generation check and cache.insert, then `done`
Job(frame_index, task_generation, dequeued_at, pc) ==
    [frame_index |-> frame_index, task_generation |-> task_generation,
     dequeued_at |-> dequeued_at, pc |-> pc]

JobSet == BagToSet(jobs)
AddJob(j) == jobs (+) SetToBag({j})
MoveJob(j, pc) == (jobs (-) SetToBag({j})) (+) SetToBag({[j EXCEPT !.pc = pc]})

\* get_frame, its first statement: cache.update_play_head(frame_index)
GetFrameUpdate(i) ==
    /\ caller.pc = "idle"
    /\ Invalidates(i) => cache.generation < MaxGen
    /\ cache' = update_play_head(cache, i)
    /\ caller' = [pc |-> "lock", frame |-> i]
    /\ last' = Call("update_play_head", Bool(update_play_head_ret(cache, i)), seek_branch(cache, i))
    /\ UNCHANGED <<sched, tracked, inserted, worker, jobs, mutex, threads, writes, heap, rast, fmt, locks>>

\* scheduler.lock().await, then cache.get: a hit returns the bitmap and drops the guard
GetFrameLookup ==
    /\ caller.pc = "lock"
    /\ mutex = "free"
    /\ IF get(cache, caller.frame) # NoData
       THEN /\ caller' = [caller EXCEPT !.pc = "idle"]
            /\ last' = Call("get_frame", "true", "")
            /\ UNCHANGED mutex
       ELSE /\ caller' = [caller EXCEPT !.pc = "miss"]
            /\ mutex' = "caller"
            /\ UNCHANGED last
    /\ UNCHANGED <<cache, sched, tracked, inserted, worker, jobs, threads, writes, heap, rast, fmt, locks>>

\* the miss: schedule_task at priority 10, maybe_trigger_prefetch, return None
GetFrameSchedule ==
    /\ caller.pc = "miss"
    /\ sched' = prefetch(schedule_task(sched, Task(caller.frame, 10)), cache, caller.frame)
    /\ mutex' = "free"
    /\ caller' = [caller EXCEPT !.pc = "idle"]
    /\ last' = Call("get_frame", "false", "")
    /\ UNCHANGED <<cache, tracked, inserted, worker, jobs, threads, writes, heap, rast, fmt, locks>>

\* the worker loop takes the scheduler lock to fill up the running tasks
WorkerLock ==
    /\ worker.pc = "idle"
    /\ mutex = "free"
    /\ mutex' = "worker"
    /\ worker' = [worker EXCEPT !.pc = "fill"]
    /\ UNCHANGED <<cache, sched, last, tracked, inserted, caller, jobs, threads, writes, heap, rast, fmt, locks>>

\* a worker loop whose guard outlives the fill block, up to the await on the running tasks
WorkerNextTask_keeps_guard ==
    /\ worker.pc = "fill"
    /\ LET r == next_task(sched, cache)
       IN  /\ sched' = r.sched
           /\ cache' = r.cache
           /\ IF r.ret # NoTask
              THEN worker' = [pc |-> "spawn", frame |-> r.ret.frame_index,
                              dequeued_at |-> cache.generation]
              ELSE worker' = [pc |-> "poll", frame |-> None, dequeued_at |-> None]
    /\ UNCHANGED <<last, tracked, inserted, caller, jobs, mutex, threads, writes, heap, rast, fmt, locks>>

\* `while let Some(task) = scheduler.next_task()`; the guard is dropped when it is None
WorkerNextTask ==
    /\ worker.pc = "fill"
    /\ LET r == next_task(sched, cache)
       IN  /\ sched' = r.sched
           /\ cache' = r.cache
           /\ IF r.ret # NoTask
              THEN /\ worker' = [pc |-> "spawn", frame |-> r.ret.frame_index,
                                 dequeued_at |-> cache.generation]
                   /\ UNCHANGED mutex
              ELSE /\ worker' = [pc |-> "poll", frame |-> None, dequeued_at |-> None]
                   /\ mutex' = "free"
    /\ UNCHANGED <<last, tracked, inserted, caller, jobs, threads, writes, heap, rast, fmt, locks>>

\* task_generation = cache.generation(); tokio::spawn; running_tasks.push
WorkerSpawn ==
    /\ worker.pc = "spawn"
    /\ jobs' = AddJob(Job(worker.frame, cache.generation, worker.dequeued_at, "run"))
    /\ worker' = [pc |-> "fill", frame |-> None, dequeued_at |-> None]
    /\ UNCHANGED <<cache, sched, last, tracked, inserted, caller, mutex, threads, writes, heap, rast, fmt, locks>>

\* running_tasks.next().await with no running task: sleep 1 ms and loop
WorkerSleep ==
    /\ worker.pc = "poll"
    /\ jobs = EmptyBag
    /\ worker' = [worker EXCEPT !.pc = "idle"]
    /\ UNCHANGED <<cache, sched, last, tracked, inserted, caller, jobs, mutex, threads, writes, heap, rast, fmt, locks>>

\* running_tasks.next().await yields a finished job
WorkerJoin(j) ==
    /\ worker.pc = "poll"
    /\ j \in JobSet
    /\ j.pc = "done"
    /\ jobs' = jobs (-) SetToBag({j})
    /\ worker' = [worker EXCEPT !.pc = "complete"]
    /\ UNCHANGED <<cache, sched, last, tracked, inserted, caller, mutex, threads, writes, heap, rast, fmt, locks>>

\* scheduler.lock().await; scheduler.complete_task(); the guard is dropped
WorkerComplete ==
    /\ worker.pc = "complete"
    /\ mutex = "free"
    /\ sched' = complete_task(sched)
    /\ worker' = [worker EXCEPT !.pc = "idle"]
    /\ UNCHANGED <<cache, last, tracked, inserted, caller, jobs, mutex, threads, writes, heap, rast, fmt, locks>>

\* the job decoded and rasterized its frame and reads cache.generation()
JobCheck(j) ==
    /\ j \in JobSet
    /\ j.pc = "run"
    /\ jobs' = MoveJob(j, IF cache.generation = j.task_generation THEN "commit" ELSE "done")
    /\ UNCHANGED <<cache, sched, last, tracked, inserted, caller, worker, mutex, threads, writes, heap, rast, fmt, locks>>

\* cache.insert(frame_index, processed_frame)
JobInsert(j) ==
    /\ j \in JobSet
    /\ j.pc = "commit"
    /\ cache' = insert(cache, j.frame_index, FrameData(j.frame_index, j.dequeued_at))
    /\ jobs' = MoveJob(j, "done")
    /\ UNCHANGED <<sched, last, tracked, inserted, caller, worker, mutex, threads, writes, heap, rast, fmt, locks>>

\* a decode error path that still stores a frame for the index
JobDecodeError_inserts(j) ==
    /\ j \in JobSet
    /\ j.pc = "run"
    /\ cache' = insert(cache, j.frame_index, FrameData(j.frame_index, j.dequeued_at))
    /\ jobs' = MoveJob(j, "done")
    /\ UNCHANGED <<sched, last, tracked, inserted, caller, worker, mutex, threads, writes, heap, rast, fmt, locks>>

\* decode_frame returned Err: the job returns without touching the cache
JobDecodeError(j) ==
    /\ j \in JobSet
    /\ j.pc = "run"
    /\ jobs' = MoveJob(j, "done")
    /\ UNCHANGED <<cache, sched, last, tracked, inserted, caller, worker, mutex, threads, writes, heap, rast, fmt, locks>>

WorkerStep ==
    \/ WorkerLock
    \/ WorkerNextTask
    \/ WorkerSpawn
    \/ WorkerSleep
    \/ \E j \in JobSet : WorkerJoin(j)
    \/ WorkerComplete

JobStep == \E j \in JobSet : JobCheck(j) \/ JobInsert(j)

InitProc ==
    /\ cache = new_cache
    /\ sched = new_scheduler(TRUE)
    /\ last = Call("new", "none", "")
    /\ tracked = None
    /\ inserted = NoData
    /\ InitSys

NextSys ==
    \/ \E i \in SysFrames : GetFrameUpdate(i)
    \/ GetFrameLookup
    \/ GetFrameSchedule
    \/ WorkerStep
    \/ JobStep
    \/ \E j \in JobSet : JobDecodeError(j)

SpecSys == InitProc /\ [][NextSys]_vars

\* the caller of sequential playback: frame 0 first, then the same frame again or the next
SeqRequest(i) ==
    /\ i <= SeqMaxFrame
    /\ IF caller.frame = None THEN i = 0 ELSE i \in {caller.frame, caller.frame + 1}
    /\ GetFrameUpdate(i)

CallerStep ==
    \/ \E i \in SeqFrames : SeqRequest(i)
    \/ GetFrameLookup
    \/ GetFrameSchedule

NextSeq ==
    \/ CallerStep
    \/ WorkerStep
    \/ JobStep

\* tokio's Mutex is fair (FIFO), the runtime schedules every spawned task
SpecSeq ==
    /\ InitProc
    /\ [][NextSeq]_vars
    /\ SF_vars(CallerStep)
    /\ SF_vars(WorkerStep)
    /\ WF_vars(JobStep)

\* get_frame of any frame, the worker loop and jobs whose decode_frame always returns Ok
NextDecodes ==
    \/ \E i \in SysFrames : GetFrameUpdate(i)
    \/ GetFrameLookup
    \/ GetFrameSchedule
    \/ WorkerStep
    \/ JobStep

SpecDecodes == InitProc /\ [][NextDecodes]_vars

\* ------------------------------------------------------------------ the other requests of the API
\* The processor runs in ProcessingMode::Both: a Ready frame holds a bitmap and a strip.
\* Metadata::frame_count of the open container
FrameCount == 2

\* get_triangle_strip_vertices, its first statement: cache.update_play_head(frame_index)
StripUpdate(i) ==
    /\ caller.pc = "idle"
    /\ Invalidates(i) => cache.generation < MaxGen
    /\ cache' = update_play_head(cache, i)
    /\ caller' = [pc |-> "strip_get", frame |-> i]
    /\ last' = Call("update_play_head", Bool(update_play_head_ret(cache, i)), seek_branch(cache, i))
    /\ UNCHANGED <<sched, tracked, inserted, worker, jobs, mutex, threads, writes, heap, rast, fmt, locks>>

\* cache.get without the scheduler lock: a hit returns the vertices
StripLookup ==
    /\ caller.pc = "strip_get"
    /\ IF get(cache, caller.frame) # NoData
       THEN /\ caller' = [caller EXCEPT !.pc = "idle"]
            /\ last' = Call("get_triangle_strip_vertices", "true", "")
       ELSE /\ caller' = [caller EXCEPT !.pc = "strip_lock"]
            /\ UNCHANGED last
    /\ UNCHANGED <<cache, sched, tracked, inserted, worker, jobs, mutex, threads, writes, heap, rast, fmt, locks>>

\* the miss: scheduler.lock().await, schedule_task at priority 10, prefetch, return None
StripSchedule ==
    /\ caller.pc = "strip_lock"
    /\ mutex = "free"
    /\ sched' = prefetch(schedule_task(sched, Task(caller.frame, 10)), cache, caller.frame)
    /\ caller' = [caller EXCEPT !.pc = "idle"]
    /\ last' = Call("get_triangle_strip_vertices", "false", "")
    /\ UNCHANGED <<cache, tracked, inserted, worker, jobs, mutex, threads, writes, heap, rast, fmt, locks>>

\* a bounds check that lets frame_count itself through
RequestCheck_past_end(i) ==
    /\ caller.pc = "idle"
    /\ IF i > FrameCount \/ contains(cache, i)
       THEN /\ caller' = [pc |-> "idle", frame |-> i]
            /\ last' = Call("request_frame", "none", "ignored")
       ELSE /\ caller' = [pc |-> "request_lock", frame |-> i]
            /\ UNCHANGED last
    /\ UNCHANGED <<cache, sched, tracked, inserted, worker, jobs, mutex, threads, writes, heap, rast, fmt, locks>>

\* request_frame up to the lock: metadata() gives frame_count (its wait for the
\* deserializer is left out), then the bounds check and cache.contains
RequestCheck(i) ==
    /\ caller.pc = "idle"
    /\ IF i >= FrameCount \/ contains(cache, i)
       THEN /\ caller' = [pc |-> "idle", frame |-> i]
            /\ last' = Call("request_frame", "none", "ignored")
       ELSE /\ caller' = [pc |-> "request_lock", frame |-> i]
            /\ UNCHANGED last
    /\ UNCHANGED <<cache, sched, tracked, inserted, worker, jobs, mutex, threads, writes, heap, rast, fmt, locks>>

\* scheduler.lock().await; schedule_task(Task::new(frame_index)); Ok(())
RequestSchedule ==
    /\ caller.pc = "request_lock"
    /\ mutex = "free"
    /\ sched' = schedule_task(sched, task_new(caller.frame))
    /\ caller' = [caller EXCEPT !.pc = "idle"]
    /\ last' = Call("request_frame", "none", "scheduled")
    /\ UNCHANGED <<cache, tracked, inserted, worker, jobs, mutex, threads, writes, heap, rast, fmt, locks>>

\* the callers of get_frame and get_triangle_strip_vertices ask for frames 0 .. ReqMaxFrame
ReqMaxFrame == 0
ReqFrames == 0 .. ReqMaxFrame

StripStep ==
    \/ StripLookup
    \/ StripSchedule

NextApi ==
    \/ \E i \in ReqFrames : GetFrameUpdate(i)
    \/ GetFrameLookup
    \/ GetFrameSchedule
    \/ \E i \in ReqFrames : StripUpdate(i)
    \/ StripStep
    \/ \E i \in 0 .. (FrameCount + 1) : RequestCheck(i)
    \/ RequestSchedule
    \/ WorkerStep
    \/ JobStep
    \/ \E j \in JobSet : JobDecodeError(j)

SpecApi == InitProc /\ [][NextApi]_vars


RequestStep ==
    \/ \E i \in ReqFrames : GetFrameUpdate(i)
    \/ GetFrameLookup
    \/ GetFrameSchedule
    \/ \E i \in ReqFrames : StripUpdate(i)
    \/ StripStep

NextReq ==
    \/ RequestStep
    \/ WorkerStep
    \/ JobStep
    \/ \E j \in JobSet : JobDecodeError(j)

\* tokio's Mutex is fair (FIFO) and the runtime schedules the caller and the worker loop;
\* nothing is assumed of the decode jobs, which may never finish
SpecReq ==
    /\ InitProc
    /\ [][NextReq]_vars
    /\ SF_vars(RequestStep)
    /\ SF_vars(WorkerStep)

\* the callers of get_frame and get_triangle_strip_vertices move back and forth over
\* frames 0 .. SeekMaxFrame; every decode succeeds
SeekMaxFrame == 1
SeekFrames == 0 .. SeekMaxFrame

NextSeek ==
    \/ \E i \in SeekFrames : GetFrameUpdate(i)
    \/ GetFrameLookup
    \/ GetFrameSchedule
    \/ \E i \in SeekFrames : StripUpdate(i)
    \/ StripStep
    \/ WorkerStep
    \/ JobStep

SpecSeek == InitProc /\ [][NextSeek]_vars

\* ------------------------------------------------------------------ the tasks at the locks
HoldsLock(p, l) == \E h \in locks.task[p].holds : h.lock = l
HoldsExclusive(p, l) == \E h \in locks.task[p].holds : h.lock = l /\ h.exclusive
Position(p, l) ==
    IF \E k \in 1 .. Len(locks.queue[l]) : locks.queue[l][k].task = p
    THEN CHOOSE k \in 1 .. Len(locks.queue[l]) : locks.queue[l][k].task = p
    ELSE 0
Waiting(p, l) == Position(p, l) # 0
\* a Mutex is granted when nobody holds it; the RwLock for reading when no writer holds
\* it, for writing when nobody holds it
Grantable(l, exclusive) ==
    IF exclusive THEN \A q \in LockTasks : ~HoldsLock(q, l)
    ELSE \A q \in LockTasks : ~HoldsExclusive(q, l)
\* task p goes on with `todo` holding `holds`; when it comes to a lock().await, read()
\* or write() it joins the waiters of that lock
Goes(lk, p, op, todo, holds) ==
    [task |-> [lk.task EXCEPT ![p] = LockTask(op, todo, holds)],
     queue |-> IF todo # <<>> /\ Head(todo).ins = "acquire"
               THEN [lk.queue EXCEPT ![Head(todo).lock] =
                                         Append(@, Waiter(p, Head(todo).exclusive))]
               ELSE lk.queue]
\* the task after its next instruction; a caller and the worker loop return at the end
\* of their program, a job stays finished until running_tasks yields it
Advance(lk, p, holds) ==
    LET rest == Tail(lk.task[p].todo)
    IN  Goes(lk, p, IF rest = <<>> /\ p \notin LockJobs THEN "none" ELSE lk.task[p].op,
             rest, holds)
NextIns(p) == Head(locks.task[p].todo)
At(p, ins) == locks.task[p].todo # <<>> /\ NextIns(p).ins = ins
JobFinished(j) == locks.task[j].op = "job" /\ locks.task[j].todo = <<>>
JobRunning(j) == locks.task[j].op = "job" /\ locks.task[j].todo # <<>>
IdleJobs == {j \in LockJobs : locks.task[j].op = "none"}
otherVars == <<cache, sched, last, tracked, inserted, caller, worker, jobs, mutex, threads,
               writes, heap, rast, fmt>>

\* a thread calls metadata, get_frame, get_triangle_strip_vertices or request_frame
LockCall(p, program) ==
    /\ locks.task[p].todo = <<>>
    /\ locks' = Goes(locks, p, "call", program, {})
    /\ UNCHANGED otherVars

\* the first waiter gets the guard
LockGrant(p) ==
    /\ At(p, "acquire")
    /\ Position(p, NextIns(p).lock) = 1
    /\ Grantable(NextIns(p).lock, NextIns(p).exclusive)
    /\ locks' = Advance([locks EXCEPT !.queue[NextIns(p).lock] = Tail(@)], p,
                        locks.task[p].holds \cup
                            {[lock |-> NextIns(p).lock, exclusive |-> NextIns(p).exclusive]})
    /\ UNCHANGED otherVars

\* the guard is dropped
LockRelease(p) ==
    /\ At(p, "release")
    /\ locks' = Advance(locks, p, {h \in locks.task[p].holds : h.lock # NextIns(p).lock})
    /\ UNCHANGED otherVars

\* the worker loop starts a turn: n tasks to dispatch, running_tasks empty or not
WorkerTurn(n) ==
    /\ locks.task[LockWorker].todo = <<>>
    /\ n <= Min(MaxConcurrent, Cardinality(IdleJobs))
    /\ locks' = Goes(locks, LockWorker, "worker",
                     worker_locks(n, n > 0 \/ IdleJobs # LockJobs), {})
    /\ UNCHANGED otherVars

\* tokio::spawn of a decode job, into a free place of running_tasks
LockSpawn(j, program) ==
    /\ At(LockWorker, "spawn")
    /\ j \in IdleJobs
    /\ locks' = Advance(Goes(locks, j, "job", program, {}), LockWorker,
                        locks.task[LockWorker].holds)
    /\ UNCHANGED otherVars

\* running_tasks.next().await yields a finished job
LockJoin(j) ==
    /\ At(LockWorker, "join")
    /\ JobFinished(j)
    /\ locks' = Advance([locks EXCEPT !.task[j] = IdleTask], LockWorker,
                        locks.task[LockWorker].holds)
    /\ UNCHANGED otherVars

LockCalls(p) ==
    \/ LockCall(p, metadata_locks)
    \/ \E program \in get_frame_locks : LockCall(p, program)
    \/ \E program \in get_triangle_strip_vertices_locks : LockCall(p, program)
    \/ \E program \in request_frame_locks : LockCall(p, program)

LockStep(p) ==
    \/ LockGrant(p)
    \/ LockRelease(p)

WorkerLoopStep ==
    \/ \E n \in 0 .. MaxConcurrent : WorkerTurn(n)
    \/ \E j \in LockJobs, program \in job_locks : LockSpawn(j, program)
    \/ \E j \in LockJobs : LockJoin(j)

NextLocks ==
    \/ \E p \in LockCallers : LockCalls(p)
    \/ \E p \in LockTasks : LockStep(p)
    \/ WorkerLoopStep

\* the runtime schedules every task that can run and tokio's Mutex is FIFO; a thread
\* need not call the API again
SpecLocks ==
    /\ InitProc
    /\ [][NextLocks]_vars
    /\ \A p \in LockTasks : WF_vars(LockStep(p))
    /\ WF_vars(WorkerLoopStep)

\* ------------------------------------------------------------------ clone of the cache
\* frame indices the owners of the two caches use: 0 .. CloneMaxFrame
CloneMaxFrame == 1
CloneFrames == 0 .. CloneMaxFrame
Handles == {"c1", "c2"}

\* the atomics of a cache, as one cell
Atomics(c) == [play_head |-> c.play_head, start_index |-> c.start_index,
               generation |-> c.generation, ready_count |-> c.ready_count,
               in_progress_count |-> c.in_progress_count]
\* the cache value an object denotes
Deref(cells, o) ==
    [buffer |-> cells[o.buffer_at],
     play_head |-> cells[o.atomics_at].play_head,
     start_index |-> cells[o.atomics_at].start_index,
     generation |-> cells[o.atomics_at].generation,
     ready_count |-> cells[o.atomics_at].ready_count,
     in_progress_count |-> cells[o.atomics_at].in_progress_count]
\* a method of the object has run and left the cache value c behind its locks and atomics
Store(cells, o, c) ==
    [cells EXCEPT ![o.buffer_at] = c.buffer, ![o.atomics_at] = Atomics(c)]
\* RingBufferCache::new
new_object(cells) ==
    [cells |-> cells \o <<new_cache.buffer, Atomics(new_cache)>>,
     obj |-> Obj(Len(cells) + 1, Len(cells) + 2)]

\* a clone that hands out the same buffer, as a derived Clone of an Arc field would
clone_shares_buffer(cells, o) ==
    [cells |-> cells \o <<cells[o.atomics_at]>>,
     obj |-> Obj(o.buffer_at, Len(cells) + 1)]

\* impl Clone: a new RwLock around a copy of the buffer, new atomics with the loaded values
clone(cells, o) ==
    [cells |-> cells \o <<cells[o.buffer_at], cells[o.atomics_at]>>,
     obj |-> Obj(Len(cells) + 1, Len(cells) + 2)]

Object(h) == IF h = "c1" THEN heap.c1 ELSE heap.c2
View(hp, h) == Deref(hp.cells, IF h = "c1" THEN hp.c1 ELSE hp.c2)

InitClone ==
    /\ cache = new_cache
    /\ sched = new_scheduler(FALSE)
    /\ last = Call("new", "none", "")
    /\ tracked = None
    /\ inserted = NoData
    /\ InitIdle
    /\ rast = NoRast
    /\ fmt = NoFmt
    /\ heap = [cells |-> new_object(<<>>).cells, c1 |-> new_object(<<>>).obj,
               c2 |-> NoObj, target |-> "none"]

\* a method called on the cache behind handle h, leaving it as c
CloneApply(h, c) ==
    /\ Object(h) # NoObj
    /\ heap' = [heap EXCEPT !.cells = Store(heap.cells, Object(h), c), !.target = h]
    /\ UNCHANGED <<cache, sched, last, tracked, inserted, caller, worker, jobs, mutex,
                   threads, writes, rast, fmt, locks>>

CloneInsert(h, i, d) ==
    /\ Object(h) # NoObj
    /\ CloneApply(h, insert(View(heap, h), i, d))

CloneMarkInProgress(h, i) ==
    /\ Object(h) # NoObj
    /\ CloneApply(h, mark_in_progress(View(heap, h), i))

CloneUpdatePlayHead(h, i) ==
    /\ Object(h) # NoObj
    /\ seek_branch(View(heap, h), i) \in {"backward", "large_forward"} =>
           View(heap, h).generation < MaxGen
    /\ CloneApply(h, update_play_head(View(heap, h), i))

CloneClear(h) ==
    /\ Object(h) # NoObj
    /\ View(heap, h).generation < MaxGen
    /\ CloneApply(h, clear(View(heap, h)))

CloneAdvanceStart(h, n) ==
    /\ Object(h) # NoObj
    /\ CloneApply(h, advance_start(View(heap, h), n))

\* let c2 = c1.clone()
CloneCache ==
    /\ heap.c2 = NoObj
    /\ heap' = [heap EXCEPT !.cells = clone(heap.cells, heap.c1).cells,
                            !.c2 = clone(heap.cells, heap.c1).obj,
                            !.target = "none"]
    /\ UNCHANGED <<cache, sched, last, tracked, inserted, caller, worker, jobs, mutex, threads,
                   writes, rast, fmt, locks>>

NextClone ==
    \/ \E h \in Handles, i \in CloneFrames, d \in Data : CloneInsert(h, i, d)
    \/ \E h \in Handles, i \in CloneFrames : CloneMarkInProgress(h, i)
    \/ \E h \in Handles, i \in CloneFrames : CloneUpdatePlayHead(h, i)
    \/ \E h \in Handles : CloneClear(h)
    \/ \E h \in Handles, n \in CloneFrames : CloneAdvanceStart(h, n)
    \/ CloneCache

SpecClone == InitClone /\ [][NextClone]_vars

\* ------------------------------------------------------------------ calls of the rasterizer
\* the polystreams handed to the rasterizer: every byte string over RastBytes of at most
\* MaxPolyLen bytes (0, 1 and 255: a zero, a step forward, a step back or a far origin)
MaxPolyLen == 10
RastBytes == {0, 1, 255}
RastInputs == UNION {[1 .. n -> RastBytes] : n \in 0 .. MaxPolyLen}
\* the mask sizes asked for: up to MaxDim on a side, and one whose area is 2^32
MaxDim == 2
HugeDim == 65536
RastDims == ((1 .. MaxDim) \X (1 .. MaxDim)) \cup {<<HugeDim, HugeDim>>}
\* overflow checks are compiled in (debug) or out (release)
Builds == {"debug", "release"}

InitRast ==
    /\ cache = new_cache
    /\ sched = new_scheduler(FALSE)
    /\ last = Call("new", "none", "")
    /\ tracked = None
    /\ inserted = NoData
    /\ InitIdle
    /\ heap = NoHeap
    /\ fmt = NoFmt
    /\ \E data \in RastInputs : rast = RastCall("input", data, 0, 0, "none", <<>>, NoMask)

TriangleStrip ==
    /\ rast.op = "input"
    /\ rast' = [rast EXCEPT !.op = "polystream_to_triangle_strip",
                            !.vertices = polystream_to_triangle_strip(rast.data)]
    /\ UNCHANGED <<cache, sched, last, tracked, inserted, caller, worker, jobs, mutex,
                   threads, writes, heap, fmt, locks>>

Rasterize(width, height, build) ==
    /\ rast.op = "input"
    /\ rast' = [rast EXCEPT !.op = "rasterize", !.width = width, !.height = height,
                            !.build = build,
                            !.mask = rasterize(rast.data, width, height, build)]
    /\ UNCHANGED <<cache, sched, last, tracked, inserted, caller, worker, jobs, mutex,
                   threads, writes, heap, fmt, locks>>

NextRast ==
    \/ TriangleStrip
    \/ \E d \in RastDims, build \in Builds : Rasterize(d[1], d[2], build)

SpecRast == InitRast /\ [][NextRast]_vars

\* ------------------------------------------------------------------ containers written and read back
\* make_frame_payload: one channel, its size, its data
make_frame_payload(channel_data) ==
    <<1, 0, 0, 0>> \o to_le_bytes(Len(channel_data), 4) \o channel_data
\* the payloads written: two of one channel, one of no channel, and one whose header
\* announces two channels and holds the size of one
Payloads ==
    {make_frame_payload(<<1, 2, 3, 4>>), make_frame_payload(<<5, 6>>), <<0, 0, 0, 0>>,
     <<2, 0, 0, 0, 1, 0, 0, 0>>}
\* the FrameData a writer is given: only its polystream is written
WrittenFrame(polystream) == [polystream |-> polystream]
\* frames added to one writer
MaxFrames == 2
\* the scenes a key is derived for, with one version and one base_url
SceneIds == {85342, 12345}
Version == <<49, 46, 53, 46, 48>>
BaseUrl == <<112, 111, 118>>
SceneKey(scene_id) == derive_key(scene_id, Version, BaseUrl)

\* ASVPWriter::new(writer) and ASVRWriter::new(writer, scene_id, version, base_url)
InitFmt ==
    /\ cache = new_cache
    /\ sched = new_scheduler(FALSE)
    /\ last = Call("new", "none", "")
    /\ tracked = None
    /\ inserted = NoData
    /\ InitIdle
    /\ heap = NoHeap
    /\ rast = NoRast
    /\ \/ fmt = [NoFmt EXCEPT !.pc = "writer", !.variant = "ASVP"]
       \/ \E scene_id \in SceneIds :
              fmt = [NoFmt EXCEPT !.pc = "writer", !.variant = "ASVR",
                                  !.key = SceneKey(scene_id)]

\* add_frame
AddFrame(polystream) ==
    /\ fmt.pc = "writer"
    /\ Len(fmt.frames) < MaxFrames
    /\ fmt' = [fmt EXCEPT !.frames = Append(@, WrittenFrame(polystream))]
    /\ UNCHANGED <<cache, sched, last, tracked, inserted, caller, worker, jobs, mutex,
                   threads, writes, heap, rast, locks>>

\* write_all
WriteAll ==
    /\ fmt.pc = "writer"
    /\ fmt' = [fmt EXCEPT !.pc = "file",
                          !.file = IF fmt.variant = "ASVP"
                                   THEN ASVPWriter_write_all(fmt.frames)
                                   ELSE ASVRWriter_write_all(fmt.key, fmt.frames)]
    /\ UNCHANGED <<cache, sched, last, tracked, inserted, caller, worker, jobs, mutex,
                   threads, writes, heap, rast, locks>>

\* a file like the writer's whose sizes table has one byte more than whole u64s
OddSizesFile ==
    /\ fmt.pc = "writer"
    /\ LET bodies == [i \in 1 .. Len(fmt.frames) |-> frame_data(fmt.frames[i].polystream)]
           table == sizes_bytes([i \in 1 .. Len(bodies) |-> Len(bodies[i])]) \o <<0>>
       IN  fmt' = [fmt EXCEPT !.pc = "file",
                              !.defect = [kind |-> "sizes_len", frame |-> 0],
                              !.file = IF fmt.variant = "ASVP"
                                       THEN ASVPWrite(table, bodies)
                                       ELSE ASVRWrite(fmt.key, table, bodies)]
    /\ UNCHANGED <<cache, sched, last, tracked, inserted, caller, worker, jobs, mutex,
                   threads, writes, heap, rast, locks>>

\* a file like the writer's where frame k declares one byte more than its payload has
WrongLengthFile(k) ==
    /\ fmt.pc = "writer"
    /\ k < Len(fmt.frames)
    /\ LET bodies ==
               [i \in 1 .. Len(fmt.frames) |->
                   to_le_bytes(Len(fmt.frames[i].polystream) + (IF i = k + 1 THEN 1 ELSE 0), 4)
                       \o compress_zlib(fmt.frames[i].polystream)]
           table == sizes_bytes([i \in 1 .. Len(bodies) |-> Len(bodies[i])])
       IN  fmt' = [fmt EXCEPT !.pc = "file",
                              !.defect = [kind |-> "frame_len", frame |-> k],
                              !.file = IF fmt.variant = "ASVP"
                                       THEN ASVPWrite(table, bodies)
                                       ELSE ASVRWrite(fmt.key, table, bodies)]
    /\ UNCHANGED <<cache, sched, last, tracked, inserted, caller, worker, jobs, mutex,
                   threads, writes, heap, rast, locks>>

\* ASVPFormat::new(reader) and ASVRFormat::new(reader, scene_id, version, base_url)
Open(scene_id) ==
    /\ fmt.pc = "file"
    /\ fmt' = [fmt EXCEPT !.pc = "open",
                          !.reader_key = IF fmt.variant = "ASVP" THEN 0
                                         ELSE SceneKey(scene_id),
                          !.format = IF fmt.variant = "ASVP"
                                     THEN ASVPFormat_new(fmt.file)
                                     ELSE ASVRFormat_new(fmt.file, SceneKey(scene_id))]
    /\ UNCHANGED <<cache, sched, last, tracked, inserted, caller, worker, jobs, mutex,
                   threads, writes, heap, rast, locks>>

\* decode_frame(frame_index) on the deserializer new() returned
DecodeFrame(frame_index) ==
    /\ fmt.pc \in {"open", "decoded"}
    /\ fmt.format.ok
    /\ fmt' = [fmt EXCEPT !.pc = "decoded", !.index = frame_index,
                          !.result = IF fmt.variant = "ASVP"
                                     THEN ASVPFormat_decode_frame(fmt.format, fmt.file,
                                                                  frame_index)
                                     ELSE ASVRFormat_decode_frame(fmt.format, fmt.file,
                                                                  frame_index)]
    /\ UNCHANGED <<cache, sched, last, tracked, inserted, caller, worker, jobs, mutex,
                   threads, writes, heap, rast, locks>>

NextFmt ==
    \/ \E polystream \in Payloads : AddFrame(polystream)
    \/ WriteAll
    \/ OddSizesFile
    \/ \E k \in 0 .. (MaxFrames - 1) : WrongLengthFile(k)
    \/ \E scene_id \in SceneIds : Open(scene_id)
    \/ \E frame_index \in 0 .. (MaxFrames + 1) : DecodeFrame(frame_index)

SpecFmt == InitFmt /\ [][NextFmt]_vars

\* ------------------------------------------------------------------ the processor over a container
\* testlib's create_test_asvp: one frame of one channel of four zero bytes; the header
\* carries the frame count in bytes 8..12
create_test_asvp ==
    LET payload == <<1, 0, 0, 0>> \o to_le_bytes(4, 4) \o <<0, 0, 0, 0>>
        frame == to_le_bytes(Len(payload), 4) \o compress_zlib(payload)
        compressed_sizes == compress_zlib(to_le_bytes(Len(frame), 8))
    IN  ASVPMagic \o to_le_bytes(1, 4) \o to_le_bytes(Len(compressed_sizes), 4)
            \o compressed_sizes \o frame
\* the containers the processor is opened on: the test file, a file whose frame is a
\* triangle, and a file whose frame does not parse
TrianglePayload == make_frame_payload(<<0, 0, 0, 0, 15, 0, 248, 15, 249, 241>>)
ProcessorFiles ==
    {create_test_asvp,
     ASVPWriter_write_all(<<WrittenFrame(TrianglePayload)>>),
     ASVPWriter_write_all(<<WrittenFrame(<<2, 0, 0, 0, 1, 0, 0, 0>>)>>)}
\* the size the processor is opened at
ProcessorDims == {<<16, 16>>}

\* AlphaStreamProcessor::new_asvp(uri, width, height, ProcessingMode::Both)
InitProcessor ==
    /\ cache = new_cache
    /\ sched = new_scheduler(TRUE)
    /\ last = Call("new", "none", "")
    /\ tracked = None
    /\ inserted = NoData
    /\ InitIdle
    /\ heap = NoHeap
    /\ \E file \in ProcessorFiles :
           fmt = [NoFmt EXCEPT !.pc = "open", !.variant = "ASVP", !.file = file,
                               !.format = ASVPFormat_new(file)]
    /\ \E d \in ProcessorDims, build \in Builds :
           rast = RastCall("new_asvp", <<>>, d[1], d[2], build, <<>>, NoMask)

\* what a decode job makes of a frame index: decode_frame, then the processed frame
JobDecode(frame_index) == ASVPFormat_decode_frame(fmt.format, fmt.file, frame_index)
JobFrame(frame_index) ==
    processed_frame(JobDecode(frame_index).polystream, rast.width, rast.height, rast.build)

\* get_frame after the play head: a hit returns the bitmap of the cached frame
ProcessorGetFrame ==
    /\ caller.pc = "lock"
    /\ mutex = "free"
    /\ IF get(cache, caller.frame) # NoData
       THEN /\ caller' = [caller EXCEPT !.pc = "idle"]
            /\ last' = Call("get_frame", "true", "")
            /\ rast' = [rast EXCEPT !.op = "get_frame",
                                    !.data = JobFrame(caller.frame).polystream,
                                    !.mask = JobFrame(caller.frame).bitmap]
            /\ UNCHANGED mutex
       ELSE /\ caller' = [caller EXCEPT !.pc = "miss"]
            /\ mutex' = "caller"
            /\ UNCHANGED <<last, rast>>
    /\ UNCHANGED <<cache, sched, tracked, inserted, worker, jobs, threads, writes, heap, fmt, locks>>

\* get_triangle_strip_vertices after the play head: a hit returns the cached vertices
ProcessorGetStrip ==
    /\ caller.pc = "strip_get"
    /\ IF get(cache, caller.frame) # NoData
       THEN /\ caller' = [caller EXCEPT !.pc = "idle"]
            /\ last' = Call("get_triangle_strip_vertices", "true", "")
            /\ rast' = [rast EXCEPT !.op = "get_triangle_strip_vertices",
                                    !.data = JobFrame(caller.frame).polystream,
                                    !.vertices = JobFrame(caller.frame).triangle_strip]
       ELSE /\ caller' = [caller EXCEPT !.pc = "strip_lock"]
            /\ UNCHANGED <<last, rast>>
    /\ UNCHANGED <<cache, sched, tracked, inserted, worker, jobs, mutex, threads, writes,
                   heap, fmt, locks>>

\* the job's decode_frame returned Ok: the frame is processed and the generation read
ProcessorJobCheck(j) ==
    /\ j \in JobSet
    /\ JobDecode(j.frame_index).ok
    /\ JobCheck(j)

\* the job's decode_frame returned Err
ProcessorJobError(j) ==
    /\ j \in JobSet
    /\ ~JobDecode(j.frame_index).ok
    /\ JobDecodeError(j)

NextProcessor ==
    \/ \E i \in ReqFrames : GetFrameUpdate(i)
    \/ ProcessorGetFrame
    \/ GetFrameSchedule
    \/ \E i \in ReqFrames : StripUpdate(i)
    \/ ProcessorGetStrip
    \/ StripSchedule
    \/ WorkerStep
    \/ \E j \in JobSet : ProcessorJobCheck(j)
    \/ \E j \in JobSet : JobInsert(j)
    \/ \E j \in JobSet : ProcessorJobError(j)

SpecProcessor == InitProcessor /\ [][NextProcessor]_vars

\* ------------------------------------------------------------------ threads inside the cache
\* The cache's methods step by step: start_index and play_head are atomics read and
\* written one at a time, the buffer is touched only under its RwLock.
\* frame indices the threads pass: 0 .. ConcMaxFrame
ConcMaxFrame == 8
ConcFrames == 0 .. ConcMaxFrame
\* the FrameData a writer stores under frame i, as test_frame_data(i)
FrameOf(i) == FrameData(i, None)
\* writer w1 inserts the even frame indices, w2 the odd ones
Owns(t, i) == IF t = "w1" THEN i % 2 = 0 ELSE i % 2 = 1

SetThread(t, rec) == threads' = [threads EXCEPT ![t] = rec]
InCall(op, pc, frame_index, start) ==
    [op |-> op, pc |-> pc, frame_index |-> frame_index, start |-> start, ret |-> "none"]
\* the record of a call that has returned: its locals are gone
Finished(op, ret) == [op |-> op, pc |-> "idle", frame_index |-> None, start |-> None, ret |-> ret]
Returns(t, ret) == Finished(threads[t].op, ret)

\* the write-locked part of insert that counts every insert as a new Ready slot
insert_locked_recount(c, slot_index, d) ==
    LET old_state == c.buffer[slot_index]
        was_in_progress == is_in_progress(old_state)
    IN  [c EXCEPT !.buffer[slot_index] = Ready(d),
                  !.in_progress_count = IF was_in_progress THEN @ - 1 ELSE @,
                  !.ready_count = @ + 1]

\* the write-locked part of insert: buffer.write(), the slot, the two counters
insert_locked(c, slot_index, d) ==
    LET old_state == c.buffer[slot_index]
        was_in_progress == is_in_progress(old_state)
        was_ready == is_ready(old_state)
    IN  [c EXCEPT !.buffer[slot_index] = Ready(d),
                  !.in_progress_count = IF was_in_progress THEN @ - 1 ELSE @,
                  !.ready_count = IF ~was_ready THEN @ + 1 ELSE @]

\* insert: start_index.load and frame_to_slot; out of range returns false at once
InsertLoad(t, i) ==
    /\ threads[t].pc = "idle"
    /\ Owns(t, i)
    /\ IF frame_to_slot(i, cache.start_index) = None
       THEN SetThread(t, Finished("insert", "false"))
       ELSE SetThread(t, InCall("insert", "write", i, cache.start_index))
    /\ UNCHANGED <<cache, sched, last, tracked, inserted, caller, worker, jobs, mutex, writes, heap, rast, fmt, locks>>

\* insert: buffer.write() and the slot computed from the start_index loaded before
InsertWrite(t) ==
    /\ threads[t].pc = "write"
    /\ cache' = insert_locked(cache, frame_to_slot(threads[t].frame_index, threads[t].start),
                              FrameOf(threads[t].frame_index))
    /\ writes' = writes \cup {threads[t].frame_index}
    /\ SetThread(t, Returns(t, "true"))
    /\ UNCHANGED <<sched, last, tracked, inserted, caller, worker, jobs, mutex, heap, rast, fmt, locks>>

\* get: start_index.load and frame_to_slot; out of range returns None at once
GetLoad(t, i) ==
    /\ threads[t].pc = "idle"
    /\ IF frame_to_slot(i, cache.start_index) = None
       THEN SetThread(t, Finished("get", "false"))
       ELSE SetThread(t, InCall("get", "read", i, cache.start_index))
    /\ UNCHANGED <<cache, sched, last, tracked, inserted, caller, worker, jobs, mutex, writes, heap, rast, fmt, locks>>

\* get: buffer.read() and the slot computed from the start_index loaded before
GetRead(t) ==
    /\ threads[t].pc = "read"
    /\ SetThread(t, Returns(t,
           Bool(is_ready(cache.buffer[frame_to_slot(threads[t].frame_index, threads[t].start)]))))
    /\ UNCHANGED <<cache, sched, last, tracked, inserted, caller, worker, jobs, mutex, writes, heap, rast, fmt, locks>>

\* update_play_head: the loads of play_head and start_index and the branch taken; an
\* in-window forward move stores play_head and returns false
UpdateLoad(t, i) ==
    /\ threads[t].pc = "idle"
    /\ seek_branch(cache, i) # "slide"
    /\ Invalidates(i) => cache.generation < MaxGen
    /\ IF Invalidates(i)
       THEN /\ SetThread(t, InCall("update_play_head", "invalidate", i, cache.start_index))
            /\ UNCHANGED cache
       ELSE /\ SetThread(t, Finished("update_play_head", "false"))
            /\ cache' = [cache EXCEPT !.play_head = i]
    /\ UNCHANGED <<sched, last, tracked, inserted, caller, worker, jobs, mutex, writes, heap, rast, fmt, locks>>

\* a seek: invalidate_internal under the write lock
UpdateInvalidate(t) ==
    /\ threads[t].pc = "invalidate"
    /\ cache' = invalidate_internal(cache)
    /\ SetThread(t, [threads[t] EXCEPT !.pc = "store_start"])
    /\ UNCHANGED <<sched, last, tracked, inserted, caller, worker, jobs, mutex, writes, heap, rast, fmt, locks>>

\* a seek: start_index.store(frame_index)
UpdateStoreStart(t) ==
    /\ threads[t].pc = "store_start"
    /\ cache' = [cache EXCEPT !.start_index = threads[t].frame_index]
    /\ SetThread(t, [threads[t] EXCEPT !.pc = "store_head"])
    /\ UNCHANGED <<sched, last, tracked, inserted, caller, worker, jobs, mutex, writes, heap, rast, fmt, locks>>

\* a seek: play_head.store(frame_index); return true
UpdateStoreHead(t) ==
    /\ threads[t].pc = "store_head"
    /\ cache' = [cache EXCEPT !.play_head = threads[t].frame_index]
    /\ SetThread(t, Returns(t, "true"))
    /\ UNCHANGED <<sched, last, tracked, inserted, caller, worker, jobs, mutex, writes, heap, rast, fmt, locks>>

NextConc ==
    \/ \E t \in Writers, i \in ConcFrames : InsertLoad(t, i)
    \/ \E t \in Writers : InsertWrite(t)
    \/ \E t \in Readers, i \in ConcFrames : GetLoad(t, i)
    \/ \E t \in Readers : GetRead(t)
    \/ \E t \in Seekers, i \in ConcFrames : UpdateLoad(t, i)
    \/ \E t \in Seekers : UpdateInvalidate(t)
    \/ \E t \in Seekers : UpdateStoreStart(t)
    \/ \E t \in Seekers : UpdateStoreHead(t)

SpecConc == Init /\ [][NextConc]_vars

\* ------------------------------------------------------------------ properties of the cache
Max(a, b) == IF a > b THEN a ELSE b
ReadySlots(c) == {s \in Slots : is_ready(c.buffer[s])}
InProgressSlots(c) == {s \in Slots : is_in_progress(c.buffer[s])}
AllEmpty(c) == \A s \in Slots : c.buffer[s] = Empty

\* C1: whenever get(i) returns data, it is the value passed to the most recent
\* insert(i, .) for the same frame index i, never data inserted under another index
KeyIntegrity ==
    tracked # None => get(cache, tracked) \in {NoData, inserted}

\* C2: ready_count is the number of Ready slots, in_progress_count the number of
\* InProgress slots, and their sum is at most the capacity
CounterInvariant ==
    /\ cache.ready_count = Cardinality(ReadySlots(cache))
    /\ cache.in_progress_count = Cardinality(InProgressSlots(cache))
    /\ cache.ready_count + cache.in_progress_count <= Capacity

\* advance_start has just vacated a part of a window that held Ready and InProgress slots
CounterWitness ==
    /\ last.op = "advance_start"
    /\ cache.start_index \in 1 .. (Capacity - 1)
    /\ cache.ready_count = 1
    /\ cache.in_progress_count = 1

\* C4: for every i < play_head, update_play_head(i) returns true, adds exactly 1 to
\* generation, empties every slot and both counters, and sets start_index = play_head = i
BackwardSeek ==
    \A i \in Frames :
        i < cache.play_head =>
            LET c2 == update_play_head(cache, i)
            IN  /\ update_play_head_ret(cache, i)
                /\ c2.generation = cache.generation + 1
                /\ AllEmpty(c2)
                /\ c2.ready_count = 0
                /\ c2.in_progress_count = 0
                /\ cache_is_empty(c2)
                /\ c2.start_index = i
                /\ c2.play_head = i

\* a backward seek to a frame above 0 has just returned true
BackwardSeekWitness ==
    /\ last.op = "update_play_head"
    /\ last.branch = "backward"
    /\ last.ret = "true"
    /\ cache.generation = 1
    /\ cache.play_head > 0
    /\ cache.start_index = cache.play_head
    /\ cache_is_empty(cache)

\* C5: for every i >= play_head with i >= start_index + 2*capacity (the boundary
\* included), update_play_head(i) returns true, adds exactly 1 to generation, empties
\* the cache and sets start_index = play_head = i
LargeForwardSeek ==
    \A i \in Frames :
        (i >= cache.play_head /\ i >= cache.start_index + 2 * Capacity) =>
            LET c2 == update_play_head(cache, i)
            IN  /\ update_play_head_ret(cache, i)
                /\ c2.generation = cache.generation + 1
                /\ AllEmpty(c2)
                /\ c2.ready_count = 0
                /\ c2.in_progress_count = 0
                /\ cache_is_empty(c2)
                /\ c2.start_index = i
                /\ c2.play_head = i

\* a large forward seek from start_index 0 to the boundary 2*capacity has just returned true
LargeForwardSeekWitness ==
    /\ last.op = "update_play_head"
    /\ last.branch = "large_forward"
    /\ last.ret = "true"
    /\ cache.generation = 1
    /\ cache.play_head = 2 * Capacity
    /\ cache.start_index = 2 * Capacity
    /\ cache_is_empty(cache)

\* C6: for every i with play_head <= i and start_index + capacity <= i < start_index +
\* 2*capacity, update_play_head(i) returns false, leaves generation unchanged, sets
\* start_index to max(i - capacity/4, 0), above the old start_index, sets play_head = i
\* and leaves i inside the new window
WindowSlide ==
    \A i \in Frames :
        (/\ cache.play_head <= i
         /\ cache.start_index + Capacity <= i
         /\ i < cache.start_index + 2 * Capacity) =>
            LET c2 == update_play_head(cache, i)
            IN  /\ ~update_play_head_ret(cache, i)
                /\ c2.generation = cache.generation
                /\ c2.start_index = Max(i - (Capacity \div 4), 0)
                /\ c2.start_index > cache.start_index
                /\ c2.play_head = i
                /\ is_in_range(c2, i)

\* a window slide has just returned false and left a Ready slot in the buffer
WindowSlideWitness ==
    /\ last.op = "update_play_head"
    /\ last.branch = "slide"
    /\ last.ret = "false"
    /\ cache.generation = 0
    /\ cache.start_index > 0
    /\ cache.start_index = cache.play_head - (Capacity \div 4)
    /\ cache.ready_count > 0

\* C7: after a window slide by update_play_head(i), if some frame f with new start_index
\* <= f < i was Ready before the slide, then at least one such frame is still returned
\* by get(f), with its own data
SlideRetention ==
    \A i \in Frames :
        seek_branch(cache, i) = "slide" =>
            LET c2 == update_play_head(cache, i)
                behind == {f \in Frames : c2.start_index <= f /\ f < i /\ contains(cache, f)}
            IN  behind # {} =>
                    \E f \in behind : get(c2, f) # NoData /\ get(c2, f) = get(cache, f)

\* C17: generation never decreases; it increases by exactly 1 on each clear(), backward
\* seek and large forward seek, and is unchanged by get, insert, mark_in_progress,
\* advance_start, a window slide and an in-window forward move
GenerationStep ==
    IF \/ last'.op = "clear"
       \/ last'.op = "update_play_head" /\ last'.branch \in {"backward", "large_forward"}
    THEN cache'.generation = cache.generation + 1
    ELSE cache'.generation = cache.generation
GenerationMonotone == [][GenerationStep /\ cache'.generation >= cache.generation]_vars

\* a window slide has just left the generation at the value an earlier seek gave it
GenerationMonotoneWitness ==
    /\ last.op = "update_play_head"
    /\ last.branch = "slide"
    /\ cache.generation = 1

\* C18: is_in_range(i) holds exactly when start_index <= i < start_index + capacity, and
\* for every i not in range insert(i, data) returns false and leaves all slots, both
\* counters, start_index, play_head and generation unchanged
OutOfRangeInsert ==
    \A i \in Frames :
        /\ is_in_range(cache, i) <=>
               (cache.start_index <= i /\ i < cache.start_index + Capacity)
        /\ ~is_in_range(cache, i) =>
               \A d \in Data : ~insert_ok(cache, i) /\ insert(cache, i, d) = cache

\* an insert below a window that holds a Ready slot has just returned false
OutOfRangeInsertWitness ==
    /\ last.op = "insert"
    /\ last.ret = "false"
    /\ cache.start_index > 0
    /\ cache.ready_count > 0

\* C31: for an in-range frame i, mark_in_progress(i) returns true, turns an Empty slot
\* into InProgress with in_progress_count + 1 and nothing else changed, and changes
\* nothing on a slot that is InProgress or Ready, so a second call changes nothing; for
\* an out-of-range i it returns false and changes nothing
MarkInProgressIdempotent ==
    \A i \in Frames :
        LET c2 == mark_in_progress(cache, i)
            slot_index == frame_to_slot(i, cache.start_index)
        IN  IF is_in_range(cache, i)
            THEN /\ mark_in_progress_ok(cache, i)
                 /\ IF cache.buffer[slot_index] = Empty
                    THEN c2 = [cache EXCEPT !.buffer[slot_index] = InProgress,
                                            !.in_progress_count = @ + 1]
                    ELSE c2 = cache
                 /\ is_ready(cache.buffer[slot_index]) => get(c2, i) = get(cache, i)
                 /\ mark_in_progress(c2, i) = c2
            ELSE /\ ~mark_in_progress_ok(cache, i)
                 /\ c2 = cache

\* mark_in_progress has just returned true on a window that holds a Ready slot and an
\* InProgress slot
MarkInProgressIdempotentWitness ==
    /\ last.op = "mark_in_progress"
    /\ last.ret = "true"
    /\ cache.ready_count = 1
    /\ cache.in_progress_count = 1
    /\ Cardinality(ReadySlots(cache)) = 1
    /\ Cardinality(InProgressSlots(cache)) = 1

\* C32: for every i with play_head <= i < start_index + capacity, update_play_head(i)
\* returns false and changes play_head only: slots, counters, start_index and generation
\* stay, and every frame that was Ready is still returned by get
InWindowForward ==
    \A i \in Frames :
        (cache.play_head <= i /\ i < cache.start_index + Capacity) =>
            LET c2 == update_play_head(cache, i)
            IN  /\ ~update_play_head_ret(cache, i)
                /\ c2 = [cache EXCEPT !.play_head = i]
                /\ \A f \in Frames : get(c2, f) = get(cache, f)

\* an in-window forward move has just returned false, past frame 0, with a Ready slot
InWindowForwardWitness ==
    /\ last.op = "update_play_head"
    /\ last.branch = "forward"
    /\ last.ret = "false"
    /\ cache.play_head > 0
    /\ cache.play_head < cache.start_index + Capacity
    /\ cache.ready_count > 0

\* C38: after any sequence of update_play_head, insert, mark_in_progress and clear on a
\* new cache, with no direct advance_start, start_index <= play_head < start_index +
\* capacity; so the frame get_frame has just passed to update_play_head is the play head,
\* is in range, and a next_task that pops its task returns it and does not drop it
PlayHeadInWindow ==
    /\ cache.start_index <= cache.play_head
    /\ cache.play_head < cache.start_index + Capacity
    /\ \A i \in Frames :
           LET c2 == update_play_head(cache, i)
               queued == schedule_task(new_scheduler(TRUE), Task(i, 10))
           IN  /\ c2.play_head = i
               /\ c2.start_index <= i /\ i < c2.start_index + Capacity
               /\ is_in_range(c2, i)
               /\ pop_loop(queued, c2).ret = Task(i, 10)

\* the window slid forward with a Ready slot left in it: the play head is the frame
\* asked for, capacity/4 frames after the new start
PlayHeadInWindowWitness ==
    /\ last.op = "update_play_head"
    /\ last.branch = "slide"
    /\ cache.start_index > 0
    /\ cache.play_head = cache.start_index + Capacity \div 4
    /\ cache.ready_count > 0

\* ------------------------------------------------------------------ properties of the rasterizer
\* C26: with the decoded points, less a last point equal to the first, making n >= 3
\* vertices, polystream_to_triangle_strip returns 3 * (n - 2) vertices (6 * (n - 2)
\* floats): for i = 0 .. n - 3 the triple v0, v(i+1), v(i+2); the closed square
\* (0,0), (10,0), (10,10), (0,10) gives [0,0,10,0,10,10, 0,0,10,10,0,10]
Remaining(points) ==
    IF Len(points) >= 2 /\ points[Len(points)] = points[1]
    THEN SubSeq(points, 1, Len(points) - 1)
    ELSE points
TriangleFan ==
    /\ rast.op = "polystream_to_triangle_strip" =>
           LET v == Remaining(decode_polystream(rast.data))
               n == Len(v)
               out == rast.vertices
           IN  n >= 3 =>
                   /\ Len(out) = 6 * (n - 2)
                   /\ \A i \in 0 .. (n - 3) :
                          SubSeq(out, 6 * i + 1, 6 * i + 6) =
                              <<v[1][1], v[1][2], v[i + 2][1], v[i + 2][2],
                                v[i + 3][1], v[i + 3][2]>>
    /\ polystream_to_triangle_strip(<<0, 0, 0, 0, 10, 0, 0, 10, 246, 0, 0, 246>>)
           = <<0, 0, 10, 0, 10, 10, 0, 0, 10, 10, 0, 10>>

\* a strip of two triangles was returned for four distinct vertices
TriangleFanWitness ==
    /\ rast.op = "polystream_to_triangle_strip"
    /\ Len(Remaining(decode_polystream(rast.data))) = 4
    /\ Len(rast.vertices) = 12
    /\ SubSeq(rast.vertices, 3, 4) # SubSeq(rast.vertices, 11, 12)

\* C27: for every byte input that decodes to fewer than 3 points (every input shorter
\* than 4 bytes among them) polystream_to_triangle_strip returns no vertex and rasterize
\* sets no pixel, and neither panics, whatever the bytes and for every width, height >= 1
DegenerateInput ==
    /\ (rast.op = "polystream_to_triangle_strip" /\ Len(decode_polystream(rast.data)) < 3)
           => rast.vertices = <<>>
    /\ rast.op = "rasterize" =>
           /\ Len(decode_polystream(rast.data)) < 3 => rast.mask.lit = {}
           /\ ~rast.mask.panicked

\* ------------------------------------------------------------------ properties of the containers
\* a payload that parses as the polystream header: channel count, channel sizes, and
\* exactly as many data bytes as the sizes add up to
ValidPolystream(p) ==
    /\ Len(p) >= 4
    /\ LET channel_count == from_le_bytes(SubSeq(p, 1, 4))
       IN  /\ Len(p) >= 4 + 4 * channel_count
           /\ channel_sizes_sum(p, channel_count) = Len(p) - 4 - 4 * channel_count
\* the file is what write_all wrote, and it is read with the key it was written with
ReadBack == fmt.pc \in {"open", "decoded"} /\ fmt.reader_key = fmt.key
WellFormed == ReadBack /\ fmt.defect.kind = "none"
\* decode_frame of the deserializer at hand
decode_frame(frame_index) ==
    IF fmt.variant = "ASVP" THEN ASVPFormat_decode_frame(fmt.format, fmt.file, frame_index)
    ELSE ASVRFormat_decode_frame(fmt.format, fmt.file, frame_index)

\* C22: with frame_count >= 1, decode_frame(i) for i >= frame_count reads the last frame:
\* same outcome as decode_frame(frame_count - 1), with key_id frame_count - 1, and in a
\* file the writer wrote it succeeds with the last valid payload written; for
\* i < frame_count it reads frame i with key_id i and returns payload i.
PermissiveTail ==
    (fmt.pc = "decoded" /\ fmt.format.frame_count >= 1) =>
        LET frame_count == fmt.format.frame_count
            read == IF fmt.index >= frame_count THEN frame_count - 1 ELSE fmt.index
        IN  /\ fmt.result.frame_index = read
            /\ fmt.index >= frame_count => fmt.result = decode_frame(frame_count - 1)
            /\ (WellFormed /\ ValidPolystream(fmt.frames[read + 1].polystream)) =>
                   /\ fmt.result.ok
                   /\ fmt.result.polystream = fmt.frames[read + 1].polystream
PermissiveTailWitness ==
    /\ fmt.pc = "decoded"
    /\ fmt.variant = "ASVR"
    /\ WellFormed
    /\ fmt.format.frame_count = 2
    /\ fmt.index = 2
    /\ fmt.frames[1] # fmt.frames[2]
    /\ fmt.result.ok
    /\ fmt.result.polystream = fmt.frames[2].polystream

\* C24: a sequence of valid payloads written by ASVPWriter or ASVRWriter and opened by
\* ASVPFormat or ASVRFormat with the same (scene_id, version, base_url) has as many
\* frames as payloads were written, and decode_frame(i) returns payload i byte for byte.
ContainerRoundTrip ==
    (WellFormed /\ \A i \in 1 .. Len(fmt.frames) : ValidPolystream(fmt.frames[i].polystream)) =>
        /\ fmt.format.ok
        /\ fmt.format.frame_count = Len(fmt.frames)
        /\ \A i \in 0 .. (Len(fmt.frames) - 1) :
               /\ decode_frame(i).ok
               /\ decode_frame(i).polystream = fmt.frames[i + 1].polystream
        /\ (fmt.pc = "decoded" /\ fmt.index < Len(fmt.frames)) =>
               /\ fmt.result.ok
               /\ fmt.result.polystream = fmt.frames[fmt.index + 1].polystream
ContainerRoundTripWitness ==
    /\ fmt.pc = "decoded"
    /\ WellFormed
    /\ fmt.variant = "ASVR"
    /\ Len(fmt.frames) = 2
    /\ \A i \in 1 .. 2 : ValidPolystream(fmt.frames[i].polystream)
    /\ fmt.frames[1] # fmt.frames[2]
    /\ fmt.index = 0
    /\ fmt.result.polystream = fmt.frames[1].polystream

\* C25 as stated: new() fails with InvalidFormat, and leaves no deserializer, for a
\* sizes table that is not whole u64s and for a frame whose declared length is not the
\* length of its payload.
OpenRejectsMalformed ==
    (ReadBack /\ fmt.defect.kind # "none") => fmt.format = NoFormat("InvalidFormat")
\* C25 amended: new() fails with InvalidFormat, and leaves no deserializer, for a sizes
\* table that is not whole u64s; a frame whose declared length is not the length of its
\* payload leaves new() successful and makes decode_frame of that frame fail with
\* InvalidFormat.
OpenRejectsOddSizes ==
    /\ (ReadBack /\ fmt.defect.kind = "sizes_len") => fmt.format = NoFormat("InvalidFormat")
    /\ (ReadBack /\ fmt.defect.kind = "frame_len") =>
           /\ fmt.format.ok
           /\ fmt.format.frame_count = Len(fmt.frames)
           /\ ~decode_frame(fmt.defect.frame).ok
           /\ decode_frame(fmt.defect.frame).err = "InvalidFormat"
           /\ (fmt.pc = "decoded" /\ fmt.result.frame_index = fmt.defect.frame) =>
                  (~fmt.result.ok /\ fmt.result.err = "InvalidFormat")
OpenRejectsOddSizesWitness ==
    /\ fmt.pc = "open"
    /\ fmt.defect.kind = "sizes_len"
    /\ fmt.reader_key = fmt.key
    /\ Len(fmt.frames) = 2
    /\ ~fmt.format.ok
    /\ fmt.format.err = "InvalidFormat"

\* the sizes table as the reader decompresses it, the running sum of the sizes, the
\* length of frame i as the writer wrote it, and what holds of an opened deserializer
SizesTable ==
    LET compressed_sizes_size == fmt.format.compressed_sizes_size
        head == SubSeq(fmt.file, 1, 16 + compressed_sizes_size)
        plain == IF fmt.variant = "ASVP" THEN head
                 ELSE decrypt_frame_data(head, fmt.reader_key, HeaderKeyId)
    IN  decompress_zlib(SubSeq(plain, 17, Len(plain))).value
RECURSIVE SumOfSizes(_, _)
SumOfSizes(sizes, n) == IF n = 0 THEN 0 ELSE sizes[n] + SumOfSizes(sizes, n - 1)
WrittenSize(i) == 4 + Len(compress_zlib(fmt.frames[i].polystream))
FrameTableState ==
    (fmt.pc \in {"open", "decoded"} /\ fmt.format.ok) =>
        LET f == fmt.format
        IN  /\ f.frame_count * 8 = Len(SizesTable)
            /\ Len(f.frame_sizes) = f.frame_count
            /\ Len(f.frame_offsets) = f.frame_count
            /\ \A i \in 0 .. (f.frame_count - 1) :
                   /\ f.frame_sizes[i + 1] =
                          from_le_bytes(SubSeq(SizesTable, 8 * i + 1, 8 * i + 8))
                   /\ f.frame_offsets[i + 1] =
                          16 + f.compressed_sizes_size + SumOfSizes(f.frame_sizes, i)
            /\ ReadBack =>
                   /\ f.frame_count = Len(fmt.frames)
                   /\ \A i \in 1 .. Len(fmt.frames) :
                          /\ f.frame_sizes[i] = WrittenSize(i)
                          /\ fmt.defect.kind = "none" =>
                                 LET raw == SubSeq(fmt.file, f.frame_offsets[i] + 1,
                                                   f.frame_offsets[i] + f.frame_sizes[i])
                                 IN  frame_data(fmt.frames[i].polystream) =
                                         IF fmt.variant = "ASVP" THEN raw
                                         ELSE decrypt_frame_data(raw, fmt.reader_key,
                                                                 FrameKeyId(i - 1))
\* C34: after a successful open, frame_count is the length of the decompressed sizes
\* table divided by 8, sizes[i] is the i-th little-endian u64 of the table and
\* offsets[i] = 16 + compressed_sizes_size + the sum of sizes[j] for j < i; in a file the
\* writer wrote these are the lengths and places of the frames written; decode_frame
\* changes none of them
FrameTable ==
    /\ []FrameTableState
    /\ [][(fmt.pc \in {"open", "decoded"} /\ fmt.format.ok) => fmt'.format = fmt.format]_vars

\* frame 1 of an encrypted file of two frames was decoded: the second frame starts
\* where the first one ends
FrameTableWitness ==
    /\ fmt.pc = "decoded"
    /\ fmt.variant = "ASVR"
    /\ fmt.format.ok
    /\ fmt.format.frame_count = 2
    /\ fmt.index = 1
    /\ fmt.format.frame_offsets[2] = fmt.format.frame_offsets[1] + fmt.format.frame_sizes[1]
    /\ fmt.format.frame_offsets[1] = 16 + fmt.format.compressed_sizes_size

\* ------------------------------------------------------------------ properties of the processor
\* C28: on the container of one frame 01 00 00 00 04 00 00 00 00 00 00 00, opened at
\* 16x16 in Both mode, metadata().frame_count is 1, the mask get_frame(0, 16, 16)
\* returns has length 256 and the strip get_triangle_strip_vertices(0) returns has
\* length 174.
SingleFrameEndToEnd ==
    (fmt.file = create_test_asvp /\ rast.width = 16 /\ rast.height = 16) =>
        /\ fmt.format.ok
        /\ fmt.format.frame_count = 1
        /\ (rast.op = "get_frame" /\ caller.frame = 0) =>
               (~rast.mask.panicked /\ rast.mask.len = 256)
        /\ (rast.op = "get_triangle_strip_vertices" /\ caller.frame = 0) =>
               Len(rast.vertices) = 174

\* ------------------------------------------------------------------ properties of the scheduler
\* the queued tasks next_task may return: all of them without a cache, else those in the window
Dispatchable(s, c) ==
    {k \in 1 .. Len(s.task_queue) : ~s.has_cache \/ is_in_range(c, s.task_queue[k].frame_index)}

\* C9: next_task() returns None whenever active_tasks >= max_concurrent, or a cache is
\* attached and occupied_count() >= capacity; it returns a task only when both caps allow
Backpressure ==
    LET r == next_task(sched, cache)
        refused == \/ sched.active_tasks >= MaxConcurrent
                   \/ sched.has_cache /\ occupied_count(cache) >= Capacity
    IN  /\ refused => (r.ret = NoTask /\ r.sched = sched /\ r.cache = cache)
        /\ r.ret # NoTask =>
               /\ sched.active_tasks < MaxConcurrent
               /\ sched.has_cache => occupied_count(cache) < Capacity

\* next_task has just returned None with a dispatchable task queued and a worker to
\* spare, because the attached cache is full
BackpressureWitness ==
    /\ last.op = "next_task"
    /\ last.ret = "false"
    /\ sched.has_cache
    /\ sched.active_tasks < MaxConcurrent
    /\ occupied_count(cache) >= Capacity
    /\ Dispatchable(sched, cache) # {}

\* C10: a next_task() call that is not refused by backpressure returns, among the queued
\* in-range tasks, one of maximal priority, and among those the one of lowest frame_index
DispatchOrder ==
    LET r == next_task(sched, cache)
    IN  r.ret # NoTask =>
            \A k \in Dispatchable(sched, cache) :
                LET t == sched.task_queue[k]
                IN  \/ t.priority < r.ret.priority
                    \/ t.priority = r.ret.priority /\ t.frame_index >= r.ret.frame_index

\* the queue positions holding frame i
Entries(q, i) == {k \in 1 .. Len(q) : q[k].frame_index = i}
\* the queue without the entries of frame i, in order
Others(q, i) == SelectSeq(q, LAMBDA t : t.frame_index # i)

\* C11: schedule_task({i, p}) when frame i is already queued with priority p' >= p leaves
\* the queue (contents, order, priorities), the membership set and active_tasks unchanged
Deduplication ==
    \A i \in SchedFrames, p \in Priorities :
        (\E k \in Entries(sched.task_queue, i) : sched.task_queue[k].priority >= p) =>
            schedule_task(sched, Task(i, p)) = sched

\* schedule_task has just been called for a frame already queued at no lower priority,
\* with another task behind it in the queue
DeduplicationWitness ==
    /\ last.op = "schedule_task"
    /\ last.branch = "duplicate"
    /\ Len(sched.task_queue) = 2
    /\ sched.task_queue[1].priority = 5

PrefetchClipped ==
    \A c \in SchedFrames :
        sched.has_cache =>
            LET s2 == prefetch(sched, cache, c)
                added == {k \in 1 .. Len(s2.task_queue) :
                             s2.task_queue[k].frame_index \notin sched.queued_frames}
            IN  /\ \A k \in added :
                       LET f == s2.task_queue[k].frame_index
                       IN  /\ c < f
                           /\ f <= c + PrefetchCount
                           /\ f < cache.start_index + Capacity
                           /\ get_slot_state(cache, f) = Empty
                           /\ s2.task_queue[k].priority = 0
                /\ SelectSeq(s2.task_queue, LAMBDA t : t.frame_index \in sched.queued_frames)
                       = sched.task_queue
                /\ s2.queued_frames = sched.queued_frames \cup
                       {s2.task_queue[k].frame_index : k \in added}
                /\ (\A sl \in Slots : ~is_empty(cache.buffer[sl])) => s2 = sched

\* prefetch has just enqueued a task, the last frame of the window is queued at
\* priority 0, and a frame beyond the window's end was left out
PrefetchClippedWitness ==
    /\ last.op = "prefetch"
    /\ last.branch = "clipped"
    /\ sched.has_cache
    /\ cache.start_index + Capacity - 1 \in sched.queued_frames
    /\ \E k \in 1 .. Len(sched.task_queue) :
           /\ sched.task_queue[k].frame_index = cache.start_index + Capacity - 1
           /\ sched.task_queue[k].priority = 0

\* C14: with a cache attached, next_task() never returns a task whose frame_index is
\* outside [start_index, start_index + capacity); such a task is removed from the queue
\* and the membership set without incrementing active_tasks or changing a cache slot
StaleDropped ==
    LET r == next_task(sched, cache)
        q == sched.task_queue
        refused == \/ sched.active_tasks >= MaxConcurrent
                   \/ occupied_count(cache) >= Capacity
        live == {k \in 1 .. Len(q) : is_in_range(cache, q[k].frame_index)}
        first == IF live = {} THEN Len(q) + 1
                 ELSE CHOOSE k \in live : \A j \in live : k <= j
        popped == 1 .. Min(first, Len(q))
    IN  sched.has_cache =>
            /\ r.ret # NoTask => is_in_range(cache, r.ret.frame_index)
            /\ ~refused =>
                   /\ r.ret = IF live = {} THEN NoTask ELSE q[first]
                   /\ r.sched.task_queue = SubSeq(q, first + 1, Len(q))
                   /\ r.sched.queued_frames =
                          sched.queued_frames \ {q[k].frame_index : k \in popped}
                   /\ r.sched.active_tasks =
                          sched.active_tasks + (IF live = {} THEN 0 ELSE 1)
                   /\ r.cache = IF live = {} THEN cache
                                ELSE mark_in_progress(cache, q[first].frame_index)

\* next_task has just dropped an out-of-window task and returned the task behind it
StaleDroppedWitness ==
    /\ last.op = "next_task"
    /\ last.branch = "dropped"
    /\ last.ret = "true"
    /\ sched.active_tasks = 1
    /\ cache.in_progress_count = 1

\* the frame indices present in task_queue
QueuedInTaskQueue(s) == {s.task_queue[k].frame_index : k \in 1 .. Len(s.task_queue)}
\* C37: after any sequence of schedule_task, prefetch, next_task and complete_task,
\* queued_frames is exactly the set of frame indices present in task_queue, and no frame
\* index is in task_queue more than once
QueueMembership ==
    /\ sched.queued_frames = QueuedInTaskQueue(sched)
    /\ \A k1, k2 \in 1 .. Len(sched.task_queue) :
           sched.task_queue[k1].frame_index = sched.task_queue[k2].frame_index => k1 = k2

\* a queued task was upgraded and moved to the front, after a dispatch took a task off
\* the queue and with another task still queued behind it
QueueMembershipWitness ==
    /\ last.op = "schedule_task"
    /\ last.branch = "upgrade"
    /\ sched.active_tasks > 0
    /\ Len(sched.task_queue) = 2
    /\ Cardinality(sched.queued_frames) = 2

\* ------------------------------------------------------------------ properties of the pipeline
\* C3: a result is committed only at the generation its task was dequeued at, so every
\* Ready slot holds the result of a task dequeued at the cache's current generation; the
\* result of a task dequeued before a seek is never in the cache after that seek
GenerationContract ==
    \A s \in Slots :
        is_ready(cache.buffer[s]) => cache.buffer[s].data.dequeued_at = cache.generation

\* C15: for every interleaving of a seeking update_play_head with a concurrent
\* insert(j, d), once both calls have returned there is no frame k # j for which get(k)
\* returns d: insert never writes through a slot computed from a replaced start_index
SeekAtomic ==
    (\A t \in ThreadIds : threads[t].pc = "idle") =>
        \A k \in 0 .. (ConcMaxFrame + Capacity) : get(cache, k) \in {NoData, FrameOf(k)}

\* C16: with threads calling get and threads calling insert on pairwise disjoint in-range
\* frame indices and no play-head update, once the writers have returned every inserted
\* pair (i, data) is returned by get(i), and ready_count is the number of indices inserted
ConcurrentReadWrite ==
    (/\ \A t \in Seekers : threads[t].op = "none"
     /\ \A t \in Writers : threads[t].pc = "idle") =>
        /\ \A i \in writes : get(cache, i) = FrameOf(i)
        /\ cache.ready_count = Cardinality(writes)

\* both writers and the reader have returned, three frames are written, no seek was made
ConcurrentReadWriteWitness ==
    /\ \A t \in Seekers : threads[t].op = "none"
    /\ \A t \in Writers : threads[t] = Finished("insert", "true")
    /\ \A t \in Readers : threads[t] = Finished("get", "true")
    /\ Cardinality(writes) = 3

\* C19: get_frame and get_triangle_strip_vertices wait for nothing but the scheduler lock:
\* the worker loop never awaits its running tasks with the lock held, and every call that
\* was started returns, even when a decode job never finishes
RequestsNeverWait ==
    /\ [](worker.pc = "poll" => mutex # "worker")
    /\ (caller.pc # "idle") ~> (caller.pc = "idle")

\* a call returned None for its frame while the decode job of that frame is still running
RequestsNeverWaitWitness ==
    /\ caller.pc = "idle"
    /\ last.op \in {"get_frame", "get_triangle_strip_vertices"}
    /\ last.ret = "false"
    /\ \E j \in JobSet : j.frame_index = caller.frame /\ j.pc = "run"

\* C20: when get_frame, get_triangle_strip_vertices or request_frame has scheduled, the
\* task of the requested frame has priority 10, and every frame the call queued besides
\* (by prefetch) has priority 0
RequestScheduled ==
    /\ caller.pc \in {"miss", "strip_lock", "request_lock"}
    /\ caller'.pc = "idle"
PriorityPolicy ==
    [][RequestScheduled =>
         \A k \in DOMAIN sched'.task_queue :
             LET t == sched'.task_queue[k]
             IN  IF t.frame_index = caller.frame
                 THEN t.priority = 10
                 ELSE t.frame_index \notin sched.queued_frames => t.priority = 0]_vars

\* C21: a request_frame(i) with i >= frame_count returns Ok at once and leaves the
\* scheduler (queue, membership set, active_tasks) and the cache (slots, play_head,
\* start_index, generation) as they were
RequestFrameStarts ==
    /\ caller.pc = "idle"
    /\ caller'.pc \in {"idle", "request_lock"}
    /\ UNCHANGED <<worker, jobs, mutex>>
RequestFrameBounds ==
    [][RequestFrameStarts /\ caller'.frame >= FrameCount =>
         /\ caller'.pc = "idle"
         /\ last' = Call("request_frame", "none", "ignored")
         /\ UNCHANGED <<cache, sched>>]_vars

\* request_frame(frame_count) has returned while a task is queued and a slot is taken
RequestFrameBoundsWitness ==
    /\ caller = [pc |-> "idle", frame |-> FrameCount]
    /\ last = Call("request_frame", "none", "ignored")
    /\ sched.task_queue # <<>>
    /\ ~AllEmpty(cache)

\* C23: when the decode of a dispatched frame i fails, the job ends without inserting:
\* the cache (every slot, both counters) and the scheduler are left as they were, so the
\* slot of i stays InProgress and get(i) stays not-ready; the worker still calls
\* complete_task once for the job, as for every job it spawned
JobEndsUncommitted(j) ==
    /\ j \in JobSet
    /\ j.pc = "run"
    /\ jobs' = MoveJob(j, "done")
CompletionOwed ==
    BagCardinality(jobs) + (IF worker.pc \in {"spawn", "complete"} THEN 1 ELSE 0)
DecodeFailure ==
    /\ [](sched.active_tasks = CompletionOwed)
    /\ [][\A j \in JobSet : JobEndsUncommitted(j) =>
              /\ UNCHANGED <<cache, sched>>
              /\ is_in_progress(get_slot_state(cache, j.frame_index)) =>
                     /\ is_in_progress(get_slot_state(cache', j.frame_index))
                     /\ get(cache', j.frame_index) = NoData]_vars

\* a job failed at the current generation: its frame's slot is still InProgress beside a
\* Ready slot, and the worker has joined another job and is about to call complete_task
DecodeFailureWitness ==
    /\ \E j \in JobSet :
           /\ j.pc = "done"
           /\ j.task_generation = cache.generation
           /\ is_in_progress(get_slot_state(cache, j.frame_index))
    /\ cache.ready_count > 0
    /\ cache.in_progress_count = 1
    /\ worker.pc = "complete"

\* the worker step in which next_task returned a task, and the one of complete_task
Dispatches == worker.pc = "fill" /\ worker'.pc = "spawn"
Completes == worker.pc = "complete" /\ worker'.pc = "idle"
\* C33: 0 <= active_tasks <= max_concurrent in every state of scheduler and worker loop;
\* a next_task that returns a task adds exactly 1 to active_tasks, complete_task takes
\* exactly 1 off a count above 0, and nothing else changes it; active_tasks is the number
\* of jobs spawned or about to be and not yet completed, whatever their outcome, so it
\* is 0 once every dispatched job has been reaped
InFlightAccounting ==
    /\ [](sched.active_tasks \in 0 .. MaxConcurrent)
    /\ [](sched.active_tasks = CompletionOwed)
    /\ []((jobs = EmptyBag /\ worker.pc \notin {"spawn", "complete"}) => sched.active_tasks = 0)
    /\ [][IF Dispatches THEN sched'.active_tasks = sched.active_tasks + 1
          ELSE IF Completes
               THEN sched.active_tasks > 0 /\ sched'.active_tasks = sched.active_tasks - 1
               ELSE sched'.active_tasks = sched.active_tasks]_vars

\* after a seek every job was reaped, a frame was committed, and the worker is about to
\* call complete_task for the last job
InFlightAccountingWitness ==
    /\ worker.pc = "complete"
    /\ jobs = EmptyBag
    /\ sched.active_tasks = 1
    /\ cache.generation = 1
    /\ cache.ready_count > 0

KeepsPolling(i) == <>[](caller.frame = i)
Returned(i) == caller.frame = i /\ last.op = "get_frame" /\ last.ret = "true"
SequentialPlayback ==
    /\ \A i \in SeqFrames : KeepsPolling(i) => <>Returned(i)
    /\ [](cache.generation = 0)

\* the frames dispatched by next_task whose job the worker loop has not yet reaped
InFlightFrames ==
    {j.frame_index : j \in JobSet} \cup (IF worker.pc = "spawn" THEN {worker.frame} ELSE {})
\* C35: while no decode fails and only next_task marks slots, every InProgress slot is the
\* slot of a frame whose decode job is in flight (dispatched by next_task and not yet
\* reaped by the worker loop), also after window slides and seeks; with no job in flight
\* in_progress_count is 0
NoOrphanedInProgress ==
    /\ \A s \in InProgressSlots(cache) :
           \E f \in InFlightFrames :
               is_in_range(cache, f) /\ frame_to_slot(f, cache.start_index) = s
    /\ InFlightFrames = {} => cache.in_progress_count = 0

\* how many jobs of frame f are dispatched and not yet reaped
JobsOfFrame(f) ==
    LET js == {j \in JobSet : j.frame_index = f}
    IN  BagCardinality([j \in js |-> jobs[j]])
InFlightCount(f) ==
    JobsOfFrame(f) + (IF worker.pc = "spawn" /\ worker.frame = f THEN 1 ELSE 0)
\* C36: a task leaves the queue when next_task returns it, so it is returned at most
\* once; and while a decode job for frame f is in flight (dispatched by next_task and
\* not yet reaped), next_task returns no other task for f, whatever get_frame or
\* prefetch is called in the meantime
NoDuplicateDispatch ==
    /\ [](\A f \in Frames : InFlightCount(f) <= 1)
    /\ [][Dispatches =>
              \A k \in 1 .. Len(sched'.task_queue) :
                  sched'.task_queue[k].frame_index # worker'.frame]_vars

\* p waits for q: for a lock q holds or is queued for before p, or, the worker loop,
\* for a running job; a cycle of such waits
WaitsFor(p, q) ==
    \/ \E l \in LockNames :
           /\ Waiting(p, l)
           /\ \/ IF NextIns(p).exclusive THEN HoldsLock(q, l) ELSE HoldsExclusive(q, l)
              \/ Waiting(q, l) /\ Position(q, l) < Position(p, l)
    \/ /\ p = LockWorker
       /\ At(p, "join")
       /\ ~\E j \in LockJobs : JobFinished(j)
       /\ q \in LockJobs /\ JobRunning(q)
RECURSIVE WaitChain(_, _)
WaitChain(tasks, n) ==
    IF n = 0 THEN tasks
    ELSE WaitChain(tasks \cup {q \in LockTasks : \E p \in tasks : WaitsFor(p, q)}, n - 1)
CyclicWait ==
    \E p \in LockTasks :
        p \in WaitChain({q \in LockTasks : WaitsFor(p, q)}, Cardinality(LockTasks))
\* C39: callers of get_frame, get_triangle_strip_vertices, request_frame and metadata,
\* the worker loop and the decode jobs never wait in a cycle on the scheduler mutex, the
\* deserializer mutex, the reader mutex and the cache's read-write lock; with fair
\* scheduling and decodes that terminate, every lock request is eventually granted
DeadlockFreedom ==
    /\ []~CyclicWait
    /\ \A p \in LockTasks, l \in LockNames : Waiting(p, l) ~> HoldsLock(p, l)

\* a caller holds the scheduler mutex and waits for the buffer, which a job writes
\* under the deserializer mutex; the other caller waits for the deserializer and the
\* worker loop for the job
DeadlockFreedomWitness ==
    /\ HoldsLock("a", "scheduler") /\ Waiting("a", "buffer")
    /\ HoldsLock("j1", "deserializer") /\ HoldsExclusive("j1", "buffer")
    /\ Waiting("b", "deserializer")
    /\ At(LockWorker, "join")

\* the first step of a request for a frame behind the play head
RequestBehind ==
    /\ caller.pc = "idle"
    /\ caller'.pc \in {"lock", "strip_get"}
    /\ caller'.frame < cache.play_head
====
